---- MODULE Spec2Model ----
(***************************************************************************)
(* Preview resolution and Preview Store of the fan-art viewer              *)
(* (backend/item/views.py, backend/item/utils.py, backend/item/models.py). *)
(*                                                                         *)
(* One catalog item is modelled.  Its PreviewImage rows are kept as a      *)
(* sequence in primary-key (insertion) order.  The database runs in        *)
(* autocommit mode, so every statement a handler issues is a step of its   *)
(* own: a request that writes the store is a record in `workers` that      *)
(* moves from one statement to the next, and the statements of requests    *)
(* running side by side interleave.  A statement that can raise does so    *)
(* or not, nondeterministically.  The answer of a finished request is      *)
(* kept in `last` until the client has taken it (action Respond).          *)
(***************************************************************************)
EXTENDS Integers, Sequences, FiniteSets, TLC

VARIABLES
    preview_images,     \* PreviewImage rows of the item, in primary-key order
    preview_data,       \* Item.preview_data / preview_content_type (legacy blob) or None
    LAST_TW_API_RESP,   \* utils.LAST_TW_API_RESP entry of the target post, or None
    last,               \* the request just handled and its response
    call,               \* a single call and what it started from: input, rows, result
    workers             \* the requests begun: each one's handler, position and locals

vars == <<preview_images, preview_data, LAST_TW_API_RESP, last, call, workers>>

None == "None"

\* ---------------------------------------------------------------- bounds
\* longest `images` list a client posts to save_previews
MaxImages == 2

\* ------------------------------------------------------------ constants
\* views.py: the 10 KB floor of the Playwright path
MinBytes == 10240
HTTP_200_OK == 200
HTTP_400_BAD_REQUEST == 400
HTTP_403_FORBIDDEN == 403
HTTP_404_NOT_FOUND == 404
HTTP_422_UNPROCESSABLE_ENTITY == 422
HTTP_500_INTERNAL_SERVER_ERROR == 500

\* ------------------------------------------------------------ sequences
Range(s) == {s[i] : i \in 1..Len(s)}

RemoveAt(s, i) == SubSeq(s, 1, i - 1) \o SubSeq(s, i + 1, Len(s))

\* ------------------------------------------------------------ the data
\* bytes: an identity tag and a length; NoBytes stands for None and b''
Bytes(tag, n) == [tag |-> tag, len |-> n]
NoBytes == Bytes("", 0)
\* Python truth value of a bytes / str value
Truthy(b) == b # NoBytes
TruthyStr(s) == s # None /\ s # ""

\* models.PreviewImage; pk 0 is the instance that has not been saved
PreviewImage(order, data, content_type) ==
    [pk |-> 0, order |-> order, data |-> data, content_type |-> content_type]

RECURSIVE InsertByOrder(_, _, _)
\* insert table position p into the position list `sorted`, behind every
\* position whose row has an order not above that of rows[p]
InsertByOrder(rows, sorted, p) ==
    IF sorted = <<>> THEN <<p>>
    ELSE IF rows[p].order < rows[sorted[1]].order
         THEN <<p>> \o sorted
         ELSE <<sorted[1]>> \o InsertByOrder(rows, Tail(sorted), p)

RECURSIVE OrderPositions(_, _)
OrderPositions(rows, n) ==
    IF n = 0 THEN <<>>
    ELSE InsertByOrder(rows, OrderPositions(rows, n - 1), n)

\* item.preview_images.order_by('order'): the table positions of the rows,
\* sorted by order (rows of equal order in primary-key order)
OrderBy(rows) == OrderPositions(rows, Len(rows))

\* list(item.preview_images.order_by('order'))
Imgs(rows) == [i \in 1..Len(rows) |-> rows[OrderBy(rows)[i]]]

\* `x.content_type or 'application/octet-stream'`
ContentTypeOr(ct) == IF TruthyStr(ct) THEN ct ELSE "application/octet-stream"

\* Item.preview_data / Item.preview_content_type: the legacy blob an imported
\* item may carry
Legacy(data, content_type) == [data |-> data, content_type |-> content_type]
NoLegacy == Legacy(NoBytes, None)

\* get_last_api_response: the value None, as a stored entry of status 0
NoApiResponse == [json |-> <<>>, status |-> 0]

\* ------------------------------------------------------- the response
\* what a handler answered; the fields a handler does not set keep these values
NoResponse ==
    [op |-> "none", status |-> 0, detail |-> "", method |-> None,
     force_method |-> None, preview_only |-> FALSE, url |-> "",
     TW_BEARER |-> FALSE, HEADLESS_ALLOWED |-> FALSE,
     index_given |-> FALSE, index |-> 0, data |-> NoBytes, content_type |-> "",
     candidates |-> <<>>, failed |-> {}, images |-> <<>>, count |-> 0, calls |-> {},
     api_status |-> 0, raised |-> FALSE, strategy_raised |-> {},
     alone |-> TRUE, before |-> <<>>, legacy |-> NoLegacy,
     api_response |-> NoApiResponse]

\* one entry of the `saved` / `images` list of a response
ImageEntry(index, c) ==
    [index |-> index, url |-> c.url, data |-> c.data, content_type |-> c.content_type]

\* a candidate (url, body, ctype)
Candidate(url, body, ctype) == [url |-> url, data |-> body, content_type |-> ctype]

\* candidate_sources: the dict url -> origin tag
NoSources == [u \in {} |-> ""]
\* candidate_sources[u] = src
Tag(sources, u, src) ==
    [k \in DOMAIN sources \cup {u} |-> IF k = u THEN src ELSE sources[k]]
\* the dict built while the candidates of one origin are collected
Tagged(candidates, src) == [u \in {candidates[i].url : i \in DOMAIN candidates} |-> src]

\* ------------------------------------------------------ Preview Store
RECURSIVE MaxByLen(_, _, _)
\* max(imgs, key=lambda x: len(x.data or b'')): the scan keeps the first of
\* the largest elements
MaxByLen(imgs, i, best) ==
    IF i > Len(imgs) THEN best
    ELSE MaxByLen(imgs, i + 1,
                  IF imgs[i].data.len > best.data.len THEN imgs[i] ELSE best)

\* mutant: the first image is served, whatever its size
BestFirst(imgs) == imgs[1]

Best(imgs) == MaxByLen(imgs, 2, imgs[1])

\* mutant: without an index the legacy blob is served whenever it is there
PreviewResponseLegacyFirst(rows, legacy, index) ==
    LET imgs == Imgs(rows)
        r == [NoResponse EXCEPT !.op = "preview", !.index_given = index.given,
                                !.index = index.val]
    IN IF index.given
       THEN IF ~index.int
            THEN [r EXCEPT !.status = HTTP_400_BAD_REQUEST, !.detail = "invalid index"]
            ELSE IF index.val < 0 \/ index.val >= Len(imgs)
                 THEN [r EXCEPT !.status = HTTP_404_NOT_FOUND,
                                !.detail = "index out of range"]
                 ELSE [r EXCEPT !.status = HTTP_200_OK, !.detail = "image",
                                !.data = imgs[index.val + 1].data,
                                !.content_type =
                                    ContentTypeOr(imgs[index.val + 1].content_type)]
       ELSE IF Truthy(legacy.data)
            THEN [r EXCEPT !.status = HTTP_200_OK, !.detail = "legacy",
                           !.data = legacy.data,
                           !.content_type = ContentTypeOr(legacy.content_type)]
            ELSE IF imgs # <<>>
                 THEN [r EXCEPT !.status = HTTP_200_OK, !.detail = "best",
                                !.data = Best(imgs).data,
                                !.content_type = ContentTypeOr(Best(imgs).content_type)]
                 ELSE [r EXCEPT !.status = HTTP_404_NOT_FOUND, !.detail = "No preview"]

\* ItemViewSet.preview; index = [given, int, val] is the `index` query parameter
PreviewResponse(rows, legacy, index) ==
    LET imgs == Imgs(rows)
        r == [NoResponse EXCEPT !.op = "preview", !.index_given = index.given,
                                !.index = index.val]
    IN IF index.given
       THEN IF ~index.int
            THEN [r EXCEPT !.status = HTTP_400_BAD_REQUEST, !.detail = "invalid index"]
            ELSE IF index.val < 0 \/ index.val >= Len(imgs)
                 THEN [r EXCEPT !.status = HTTP_404_NOT_FOUND,
                                !.detail = "index out of range"]
                 ELSE [r EXCEPT !.status = HTTP_200_OK, !.detail = "image",
                                !.data = imgs[index.val + 1].data,
                                !.content_type =
                                    ContentTypeOr(imgs[index.val + 1].content_type)]
       ELSE IF imgs # <<>>
            THEN [r EXCEPT !.status = HTTP_200_OK, !.detail = "best",
                           !.data = Best(imgs).data,
                           !.content_type = ContentTypeOr(Best(imgs).content_type)]
            ELSE IF Truthy(legacy.data)
                 THEN [r EXCEPT !.status = HTTP_200_OK, !.detail = "legacy",
                                !.data = legacy.data,
                                !.content_type = ContentTypeOr(legacy.content_type)]
                 ELSE [r EXCEPT !.status = HTTP_404_NOT_FOUND, !.detail = "No preview"]

\* ------------------------------------------- the statements of the store
\* The database runs in autocommit mode (settings.py sets no ATOMIC_REQUESTS
\* and no view opens a transaction): every statement below takes effect on its
\* own, and the statements of other requests may run between two of them.
Pks(rows) == {rows[i].pk : i \in 1..Len(rows)}

Max(S) == CHOOSE x \in S : \A y \in S : y <= x

\* the key the database gives the next row: above every key in the table and
\* above every key a running request still holds (a key is never given twice)
NextPk(rows, held) == 1 + Max({0} \cup Pks(rows) \cup held)

\* PreviewImage.objects.filter(item=item).delete()
DeleteAll(rows) == <<>>

\* PreviewImage.objects.filter(item=cur_item, order=order).delete()
DeleteOrder(rows, order) == SelectSeq(rows, LAMBDA r : r.order # order)

\* target.delete(): DELETE ... WHERE id = target.pk
DeletePk(rows, pk) == SelectSeq(rows, LAMBDA r : r.pk # pk)

\* PreviewImage.objects.create(...): the row is appended under the key pk
\* unless the storage layer raises for it
Create(rows, row, pk, raises) ==
    IF raises THEN rows ELSE Append(rows, [row EXCEPT !.pk = pk])

\* img.save() of a loaded instance: UPDATE ... WHERE id = img.pk and, when that
\* changes no row (the row was deleted meanwhile), INSERT under the same key
Save(rows, img) ==
    IF img.pk \in Pks(rows)
    THEN [i \in 1..Len(rows) |-> IF rows[i].pk = img.pk THEN img ELSE rows[i]]
    ELSE SelectSeq(rows, LAMBDA r : r.pk < img.pk) \o <<img>>
         \o SelectSeq(rows, LAMBDA r : r.pk > img.pk)

\* the `failed` mark of a request whose delete of the existing rows raised
DeleteFails == {0}

\* mutant: no remaining row is renumbered
NextStaleNone(remaining, k) == 0

RECURSIVE NextStale(_, _)
\* for new_idx, img in enumerate(remaining): if img.order != new_idx: the
\* position (from k on) of the next row that is saved, 0 when there is none
NextStale(remaining, k) ==
    IF k > Len(remaining) THEN 0
    ELSE IF remaining[k].order # k - 1 THEN k
         ELSE NextStale(remaining, k + 1)

\* imgs[idxi] of a Python list
ListItem(imgs, idxi) == imgs[IF idxi < 0 THEN Len(imgs) + idxi + 1 ELSE idxi + 1]

\* mutant: a negative index is not refused and counts from the end of the list
PreviewIndexResponseFromEnd(rows, idx, method) ==
    LET imgs == Imgs(rows)
        r == [NoResponse EXCEPT !.op = "preview_index", !.method = method,
                                !.index = idx.val]
    IN IF ~idx.int
       THEN [r EXCEPT !.status = HTTP_400_BAD_REQUEST, !.detail = "invalid index"]
       ELSE IF idx.val >= Len(imgs) \/ idx.val < 0 - Len(imgs)
            THEN [r EXCEPT !.status = HTTP_404_NOT_FOUND, !.detail = "index out of range"]
            ELSE IF method = "DELETE"
                 THEN [r EXCEPT !.before = imgs]
                 ELSE [r EXCEPT !.status = HTTP_200_OK, !.detail = "image",
                                !.data = ListItem(imgs, idx.val).data,
                                !.content_type =
                                    ContentTypeOr(ListItem(imgs, idx.val).content_type)]

\* ItemViewSet.preview_index up to line 571 and its GET branch; idx = [int, val],
\* method = "GET" | "DELETE".  Status 0: the DELETE goes on to line 573 with
\* the list it has read
PreviewIndexResponse(rows, idx, method) ==
    LET imgs == Imgs(rows)
        r == [NoResponse EXCEPT !.op = "preview_index", !.method = method,
                                !.index = idx.val]
    IN IF ~idx.int
       THEN [r EXCEPT !.status = HTTP_400_BAD_REQUEST, !.detail = "invalid index"]
       ELSE IF idx.val < 0 \/ idx.val >= Len(imgs)
            THEN [r EXCEPT !.status = HTTP_404_NOT_FOUND, !.detail = "index out of range"]
            ELSE IF method = "DELETE"
                 THEN [r EXCEPT !.before = imgs]
                 ELSE [r EXCEPT !.status = HTTP_200_OK, !.detail = "image",
                                !.data = ListItem(imgs, idx.val).data,
                                !.content_type =
                                    ContentTypeOr(ListItem(imgs, idx.val).content_type)]

\* lines 583-586: the answer of a DELETE, after the renumbering or from the
\* except branch
DeleteResponse(r, raised) ==
    IF raised
    THEN [r EXCEPT !.status = HTTP_500_INTERNAL_SERVER_ERROR,
                   !.detail = "Failed to delete preview"]
    ELSE [r EXCEPT !.status = HTTP_200_OK, !.detail = "deleted"]


\* ----------------------------------------------------- save_previews
\* a data URI as the client sends it: shape "ok" is `data:<mime>;base64,<b64>`,
\* "nomime" has a header the regex data:([^;]+);base64 does not match,
\* "nocomma" has no comma (split raises), "none" is a missing data_uri
DataUri(shape, mime, body) == [shape |-> shape, mime |-> mime, body |-> body]
NoDataUri == DataUri("none", "", NoBytes)

\* header, b64 = data_uri.split(',', 1); body = b64decode(b64); ctype from the header
ParseDataUri(u) ==
    [raises |-> u.shape = "nocomma",
     body |-> u.body,
     ctype |-> IF u.shape = "ok" THEN u.mime ELSE "application/octet-stream"]

\* one create a store loop issues: the order the row gets and what it holds
Entry(order, url, data, content_type) ==
    [order |-> order, url |-> url, data |-> data, content_type |-> content_type]

\* for idx, (url, body, ctype) in enumerate(candidates)
Numbered(candidates) ==
    [i \in 1..Len(candidates) |->
        Entry(i - 1, candidates[i].url, candidates[i].data, candidates[i].content_type)]

RECURSIVE Decoded(_, _)
\* the loop of save_previews, lines 534-541: the images from position i on
\* whose data_uri is there and decodes, each with its position in the list;
\* the others are passed over without a statement
Decoded(images, i) ==
    IF i > Len(images) THEN <<>>
    ELSE LET u == images[i]
             p == ParseDataUri(u)
         IN (IF u.shape = "none" \/ p.raises THEN <<>>
             ELSE <<Entry(i - 1, None, p.body, p.ctype)>>)
            \o Decoded(images, i + 1)

\* mutant: the first create that raises ends the loop
AfterCreateAbort(idx, n, raises) == IF raises \/ idx = n THEN 0 ELSE idx + 1

\* the loops of lines 510-517 and 534-548: the position of the next create
\* after that of position idx, 0 when the loop is over; a create that raises
\* is passed over
AfterCreate(idx, n, raises) == IF idx = n THEN 0 ELSE idx + 1

\* lines 549-550 of save_previews
SavePreviewsResponse(r, saved) ==
    IF saved = <<>>
    THEN [r EXCEPT !.status = HTTP_422_UNPROCESSABLE_ENTITY, !.detail = "No images saved"]
    ELSE [r EXCEPT !.status = HTTP_200_OK, !.detail = "saved",
                   !.count = Len(saved), !.images = saved]

\* an exception that leaves the handler: the framework answers, not the view
Escaped(r) == [r EXCEPT !.detail = "exception", !.raised = TRUE]


\* ------------------------------------------------------ Image Fetcher
\* an HTTP response: status 0 stands for a transport error (requests raises);
\* the content-type header is `mime` followed by `;param` when param # ""
HttpResponse(status, mime, param, body) ==
    [status |-> status, mime |-> mime, param |-> param, body |-> body]
TransportError == HttpResponse(0, "", "", NoBytes)

\* the header values that pass str.startswith('image')
StartsWithImage(m) ==
    m \in {"image/png", "image/jpeg", "image/PNG", "image/svg+xml", "image/SVG+XML",
           "image/svg+xml ", "imagefoo"}

\* str.lower()
Lower(m) ==
    CASE m = "image/SVG+XML" -> "image/svg+xml"
      [] m = "IMAGE/PNG" -> "image/png"
      [] m = "image/PNG" -> "image/png"
      [] m = "image/SVG+XML;charset=utf-8" -> "image/svg+xml;charset=utf-8"
      [] m = "API" -> "api"
      [] OTHER -> m

NotFetched == [body |-> NoBytes, ctype |-> None]

\* mutant: a payload of exactly min_size bytes is rejected too
FetchImageAboveFloor(r, min_size) ==
    IF r.status = 0 THEN NotFetched
    ELSE IF r.status = HTTP_200_OK /\ r.mime # "" /\ StartsWithImage(r.mime)
         THEN IF Lower(r.mime) = "image/svg+xml" THEN NotFetched
              ELSE IF min_size # -1 /\ r.body.len <= min_size THEN NotFetched
                   ELSE [body |-> r.body, ctype |-> Lower(r.mime)]
         ELSE NotFetched

\* _fetch_image_via_requests(url, min_size): (content, mime) or (None, None);
\* min_size = -1 stands for min_size=None
FetchImage(r, min_size) ==
    IF r.status = 0 THEN NotFetched
    ELSE IF r.status = HTTP_200_OK /\ r.mime # "" /\ StartsWithImage(r.mime)
         THEN IF Lower(r.mime) = "image/svg+xml" THEN NotFetched
              ELSE IF min_size # -1 /\ r.body.len < min_size THEN NotFetched
                   ELSE [body |-> r.body, ctype |-> Lower(r.mime)]
         ELSE NotFetched

\* `if b and ct`
Fetched(f) == Truthy(f.body) /\ TruthyStr(f.ctype)

\* ------------------------------------------------- the target URLs
TwitterUrl == "https://x.com/u/status/1"
TwitterUrl4 == "https://twitter.com/u/status/4/"
PixivUrl == "https://www.pixiv.net/artworks/2"
OtherUrl == "https://example.org/post/3"
NoUrl == ""

\* ('twitter.com' in target_url) or ('x.com' in target_url)
IsTwitter(url) == url \in {TwitterUrl, TwitterUrl4}
\* 'pixiv.net' in target_url or 'pximg.net' in target_url
IsPixiv(url) == url \in {PixivUrl}

\* tweet_url.rstrip('/').split('/')[-1]
TweetId(url) ==
    CASE url = TwitterUrl -> "1"
      [] url = TwitterUrl4 -> "4"
      [] url = PixivUrl -> "2"
      [] url = OtherUrl -> "3"
      [] OTHER -> ""

\* the image URLs a page can name, and a relative hint that resolves to UrlA
UrlA == "https://cdn.example/a"
UrlB == "https://cdn.example/b"
RelA == "//cdn.example/a"

\* a hint for which urljoin raises ValueError (an unclosed IPv6 bracket)
BadHint == "http://[bad"

\* urljoin(target_url, h)
UrlJoin(base, h) == IF h = RelA THEN UrlA ELSE h
UrlJoinRaises(h) == h = BadHint

\* ------------------------------------------------ Twitter helper (utils.py)
\* what a backend call gives: a list, None, or an exception
BackendResult(raises, none, urls) == [raises |-> raises, none |-> none, urls |-> urls]

\* one element of includes.media of the API's JSON; "" is an absent key
Media(type, url, preview_image_url) ==
    [type |-> type, url |-> url, media_url_https |-> "",
     preview_image_url |-> preview_image_url]

\* the API's answer: status (0: transport error) and includes.media
ApiAnswer(status, media) == [status |-> status, media |-> media]

\* `if v and v not in urls: urls.append(v)`
AppendNew(urls, v) == IF TruthyStr(v) /\ v \notin Range(urls) THEN Append(urls, v) ELSE urls

RECURSIVE PhotoUrls(_, _, _)
\* for m in media: if type == 'photo':
\*     for key in ('url', 'media_url_https', 'preview_image_url'): ...
PhotoUrls(media, i, urls) ==
    IF i > Len(media) THEN urls
    ELSE LET m == media[i]
         IN PhotoUrls(media, i + 1,
                      IF m.type = "photo"
                      THEN AppendNew(AppendNew(AppendNew(urls, m.url), m.media_url_https),
                                     m.preview_image_url)
                      ELSE urls)

\* r.raise_for_status() raises for 4xx and 5xx; a transport error raises too
ApiRaises(answer) == answer.status = 0 \/ answer.status >= 400

\* _fetch_via_api: the URLs returned
FetchViaApi(bearer, answer) ==
    IF ~bearer THEN <<>>
    ELSE IF ApiRaises(answer) THEN <<>>
         ELSE PhotoUrls(answer.media, 1, <<>>)

\* _fetch_via_api: LAST_TW_API_RESP after the call
ApiCacheAfter(cache, bearer, answer, tweet_id) ==
    IF ~bearer \/ ApiRaises(answer) THEN cache
    ELSE [k \in DOMAIN cache \cup {tweet_id} |->
             IF k = tweet_id THEN [json |-> answer.media, status |-> answer.status]
             ELSE cache[k]]

\* get_last_api_response: LAST_TW_API_RESP.get(tweet_id); status 0 stands for None
GetLastApiResponse(cache, url) ==
    IF TweetId(url) \in DOMAIN cache THEN cache[TweetId(url)] ELSE NoApiResponse

\* the try order built from TW_FETCH_METHOD
TryOrder(method) ==
    CASE method = "api" -> <<"api", "scrape", "nitter">>
      [] method = "scrape" -> <<"scrape", "api", "nitter">>
      [] method = "nitter" -> <<"nitter", "scrape", "api">>
      [] OTHER -> <<method, "api", "scrape", "nitter">>

\* the URL list of backend m, [] when it raised, returned None or is unknown
BackendUrls(m, bearer, tw) ==
    CASE m = "api" -> FetchViaApi(bearer, tw.api)
      [] m = "scrape" -> IF tw.scrape.raises \/ tw.scrape.none THEN <<>> ELSE tw.scrape.urls
      [] m = "nitter" -> IF tw.nitter.raises \/ tw.nitter.none THEN <<>> ELSE tw.nitter.urls
      [] OTHER -> <<>>

RECURSIVE TagNew(_, _, _, _)
\* for u in urls: if u and u not in seen: collected.append((u, m))
TagNew(collected, urls, m, i) ==
    IF i > Len(urls) THEN collected
    ELSE TagNew(IF TruthyStr(urls[i]) /\ urls[i] \notin {c.url : c \in Range(collected)}
                THEN Append(collected, [url |-> urls[i], src |-> m])
                ELSE collected,
                urls, m, i + 1)

RECURSIVE WithSourcesFirstSuccess(_, _, _, _, _)
\* mutant: the loop over the try order stops at the first backend that gave a URL
WithSourcesFirstSuccess(collected, order, bearer, tw, i) ==
    IF i > Len(order) \/ collected # <<>> THEN collected
    ELSE WithSourcesFirstSuccess(
             TagNew(collected, BackendUrls(order[i], bearer, tw), order[i], 1),
             order, bearer, tw, i + 1)

RECURSIVE WithSources(_, _, _, _, _)
\* for m in try_order: the backend's URLs, [] when it raised, tagged and appended
WithSources(collected, order, bearer, tw, i) ==
    IF i > Len(order) THEN collected
    ELSE WithSources(TagNew(collected, BackendUrls(order[i], bearer, tw), order[i], 1),
                     order, bearer, tw, i + 1)

\* fetch_twitter_media_urls_with_sources: the list of (url, method);
\* method = os.environ.get('TW_FETCH_METHOD', 'api')
FetchTwitterMediaUrlsWithSources(method, bearer, tw) ==
    WithSources(<<>>, TryOrder(Lower(method)), bearer, tw, 1)

\* ------------------------------------- fetch_and_save_preview: resolution
\* the import of playwright_helper succeeded
HAVE_PIXIV_PLAYWRIGHT == TRUE

RECURSIVE HintLoopNoSeen(_, _, _, _, _)
\* mutant: a hint is fetched even when its URL has been seen
HintLoopNoSeen(acc, target_url, hints, net, i) ==
    IF i > Len(hints) THEN acc
    ELSE LET h == hints[i]
             cand_url == UrlJoin(target_url, h)
             f == FetchImage(net[cand_url], -1)
         IN IF ~TruthyStr(h) \/ UrlJoinRaises(h)
            THEN HintLoopNoSeen(acc, target_url, hints, net, i + 1)
            ELSE HintLoopNoSeen(
                     [acc EXCEPT !.seen = @ \cup {cand_url},
                                 !.calls = @ \cup {"hint"},
                                 !.hint_fetches = Append(@, cand_url),
                                 !.candidates =
                                     IF Fetched(f)
                                     THEN Append(@, Candidate(cand_url, f.body, f.ctype))
                                     ELSE @,
                                 !.used_method = IF Fetched(f) THEN "html" ELSE @,
                                 !.candidate_sources =
                                     IF Fetched(f) THEN Tag(@, cand_url, "html") ELSE @],
                     target_url, hints, net, i + 1)

RECURSIVE HintLoop(_, _, _, _, _)
\* for h in hints: resolve, skip the seen, fetch, keep what fetched; a hint for
\* which urljoin raises is skipped
\* acc = [seen, candidates, used_method, calls, hint_fetches, helper_fetches,
\*        candidate_sources]
HintLoop(acc, target_url, hints, net, i) ==
    IF i > Len(hints) THEN acc
    ELSE LET h == hints[i]
             cand_url == UrlJoin(target_url, h)
             f == FetchImage(net[cand_url], -1)
         IN IF ~TruthyStr(h) \/ UrlJoinRaises(h) \/ cand_url \in acc.seen
            THEN HintLoop(acc, target_url, hints, net, i + 1)
            ELSE HintLoop(
                     [acc EXCEPT !.seen = @ \cup {cand_url},
                                 !.calls = @ \cup {"hint"},
                                 !.hint_fetches = Append(@, cand_url),
                                 !.candidates =
                                     IF Fetched(f)
                                     THEN Append(@, Candidate(cand_url, f.body, f.ctype))
                                     ELSE @,
                                 !.used_method = IF Fetched(f) THEN "html" ELSE @,
                                 !.candidate_sources =
                                     IF Fetched(f) THEN Tag(@, cand_url, "html") ELSE @],
                     target_url, hints, net, i + 1)

RECURSIVE HelperLoopAll(_, _, _, _)
\* mutant: the helper's URLs are merged whatever their tag and whether seen
HelperLoopAll(acc, tw_urls, net, i) ==
    IF i > Len(tw_urls) THEN acc
    ELSE LET t == tw_urls[i]
             f == FetchImage(net[t.url], -1)
             fetching == [acc EXCEPT !.calls = @ \cup {"helper_fetch"},
                                     !.helper_fetches = Append(@, t.url)]
         IN HelperLoopAll(
                IF Fetched(f)
                THEN [fetching EXCEPT
                          !.seen = @ \cup {t.url},
                          !.candidates = Append(@, Candidate(t.url, f.body, f.ctype)),
                          !.used_method = IF @ = None THEN "html" ELSE @,
                          !.candidate_sources =
                              Tag(@, t.url, IF TruthyStr(t.src) THEN t.src ELSE "scrape")]
                ELSE fetching,
                tw_urls, net, i + 1)

RECURSIVE HelperLoop(_, _, _, _)
\* for (tw_url, src) in tw_urls: skip the API's and the seen, fetch, keep, and
\* record candidate_sources[tw_url] = src or 'scrape'
HelperLoop(acc, tw_urls, net, i) ==
    IF i > Len(tw_urls) THEN acc
    ELSE LET t == tw_urls[i]
             f == FetchImage(net[t.url], -1)
             fetching == [acc EXCEPT !.calls = @ \cup {"helper_fetch"},
                                     !.helper_fetches = Append(@, t.url)]
         IN IF t.src = "api" \/ t.url \in acc.seen
            THEN HelperLoop(acc, tw_urls, net, i + 1)
            ELSE HelperLoop(
                     IF Fetched(f)
                     THEN [fetching EXCEPT
                               !.seen = @ \cup {t.url},
                               !.candidates =
                                   Append(@, Candidate(t.url, f.body, f.ctype)),
                               !.used_method = IF @ = None THEN "html" ELSE @,
                               !.candidate_sources =
                                   Tag(@, t.url,
                                       IF TruthyStr(t.src) THEN t.src ELSE "scrape")]
                     ELSE fetching,
                     tw_urls, net, i + 1)

RECURSIVE FetchEach(_, _, _, _)
\* the candidates of the URLs that fetch, in the order of the URLs
FetchEach(urls, net, min_size, i) ==
    IF i > Len(urls) THEN <<>>
    ELSE LET f == FetchImage(net[urls[i]], min_size)
         IN (IF Fetched(f) THEN <<Candidate(urls[i], f.body, f.ctype)>> ELSE <<>>)
            \o FetchEach(urls, net, min_size, i + 1)

RECURSIVE UrlsWhere(_, _, _)
\* [u for (u, s) in tw_urls if (s == 'api') == api]
UrlsWhere(tw_urls, api, i) ==
    IF i > Len(tw_urls) THEN <<>>
    ELSE (IF (tw_urls[i].src = "api") = api THEN <<tw_urls[i].url>> ELSE <<>>)
         \o UrlsWhere(tw_urls, api, i + 1)

\* an early `return Response(...)` of the handler
Early(acc, status, detail) == [acc EXCEPT !.status = status, !.detail = detail]

\* the branch `force_method == 'api'` for a twitter/x target, lines 281-357;
\* api_debug is what line 311 read from LAST_TW_API_RESP (read only when the
\* API gave no usable candidate) and goes into the 422 body as api_response
ApiBranch(acc, env, w, api_debug) ==
    IF ~env.TW_BEARER
    THEN Early(acc, HTTP_422_UNPROCESSABLE_ENTITY, "TW_BEARER not configured")
    ELSE LET tw_urls == FetchTwitterMediaUrlsWithSources(env.TW_FETCH_METHOD,
                                                         env.TW_BEARER, w.tw)
             api_candidates == FetchEach(UrlsWhere(tw_urls, TRUE, 1), w.net, -1, 1)
             limited == api_debug.status = 429
             fallback_candidates ==
                 IF limited THEN FetchEach(UrlsWhere(tw_urls, FALSE, 1), w.net, -1, 1)
                 ELSE <<>>
             called == [acc EXCEPT !.calls = @ \cup {"helper"},
                                   !.candidate_sources =
                                       IF api_candidates = <<>> /\ limited
                                       THEN Tagged(fallback_candidates, "scrape")
                                       ELSE Tagged(api_candidates, "api")]
         IN IF api_candidates # <<>>
            THEN [called EXCEPT !.candidates = api_candidates, !.used_method = "api"]
            ELSE IF fallback_candidates # <<>>
                 THEN [called EXCEPT !.candidates = fallback_candidates,
                                     !.used_method = "api_rate_limited_fallback"]
                 ELSE IF acc.candidates # <<>>
                      THEN called
                      ELSE [Early(called, HTTP_422_UNPROCESSABLE_ENTITY,
                                  "API fetch returned no media")
                               EXCEPT !.api_response = api_debug]

\* ctype.split(';', 1)[0]
BeforeSemicolon(ctype) ==
    CASE ctype = "image/jpeg;charset=binary" -> "image/jpeg"
      [] ctype = "image/svg+xml;charset=utf-8" -> "image/svg+xml"
      [] ctype = "image/SVG+XML;charset=utf-8" -> "image/SVG+XML"
      [] OTHER -> ctype

RECURSIVE PixivLoop(_, _, _)
\* for entry in pix_images, lines 398-421: skip the entries without a URL, the
\* SVGs (ctype.lower().split(';', 1)[0]) and the small, keep the rest under
\* ctype.split(';', 1)[0]; a ctype of None raises at line 418 and the entry is
\* passed over
PixivLoop(acc, images, i) ==
    IF i > Len(images) THEN acc
    ELSE LET e == images[i]
             skip == \/ ~TruthyStr(e.url)
                     \/ e.ctype = None
                     \/ BeforeSemicolon(Lower(e.ctype)) = "image/svg+xml"
                     \/ e.body.len < MinBytes
         IN PixivLoop(
                IF skip THEN acc
                ELSE [acc EXCEPT !.candidates =
                                     Append(@, Candidate(e.url, e.body,
                                                         BeforeSemicolon(e.ctype))),
                                 !.used_method =
                                     IF @ = None THEN "playwright-pixiv" ELSE @],
                images, i + 1)

RECURSIVE RenderedLoop(_, _, _, _)
\* for h in pw_urls, lines 441-451: every non-empty URL is fetched with
\* min_size=10240, what fetched is kept
RenderedLoop(acc, pw_urls, net, i) ==
    IF i > Len(pw_urls) THEN acc
    ELSE LET h == pw_urls[i]
             f == FetchImage(net[h], MinBytes)
             fetching == [acc EXCEPT !.calls = @ \cup {"rendered_fetch"}]
         IN RenderedLoop(
                IF ~TruthyStr(h) THEN acc
                ELSE IF Fetched(f)
                THEN [fetching EXCEPT
                          !.candidates = Append(@, Candidate(h, f.body, f.ctype)),
                          !.used_method = IF @ = None THEN "playwright" ELSE @]
                ELSE fetching,
                pw_urls, net, i + 1)

\* mutant: the browsers are launched without the HEADLESS_ALLOWED check
PlaywrightBranchUngated(acc, target_url, env, w) ==
    LET use_pixiv == IsPixiv(target_url) /\ HAVE_PIXIV_PLAYWRIGHT
        launched == IF use_pixiv THEN [acc EXCEPT !.calls = @ \cup {"pixiv_browser"}]
                    ELSE acc
        after_pixiv == IF use_pixiv /\ ~w.pixiv.raises
                       THEN PixivLoop(launched, w.pixiv.images, 1)
                       ELSE launched
        rendering == [after_pixiv EXCEPT !.calls = @ \cup {"rendered_browser"}]
    IN IF Len(after_pixiv.candidates) > Len(acc.candidates) THEN after_pixiv
       ELSE RenderedLoop(rendering, w.rendered.urls, w.net, 1)

\* the branch `force_method == 'playwright'`: a raise of the pixiv helper is
\* caught and passed over (lines 427-428), a raise of fetch_rendered_media is
\* answered with 422 (lines 437-438)
PlaywrightBranch(acc, target_url, env, w) ==
    IF ~env.HEADLESS_ALLOWED
    THEN Early(acc, HTTP_403_FORBIDDEN, "Playwright/headless fetch is not allowed")
    ELSE LET use_pixiv == IsPixiv(target_url) /\ HAVE_PIXIV_PLAYWRIGHT
             launched == IF use_pixiv
                         THEN [acc EXCEPT !.calls = @ \cup {"pixiv_browser"},
                                          !.strategy_raised =
                                              IF w.pixiv.raises THEN @ \cup {"pixiv"}
                                              ELSE @]
                         ELSE acc
             after_pixiv == IF use_pixiv /\ ~w.pixiv.raises
                            THEN PixivLoop(launched, w.pixiv.images, 1)
                            ELSE launched
             pixiv_handled == Len(after_pixiv.candidates) > Len(acc.candidates)
             rendering == [after_pixiv EXCEPT !.calls = @ \cup {"rendered_browser"}]
         IN IF pixiv_handled THEN after_pixiv
            ELSE IF w.rendered.raises
                 THEN Early([rendering EXCEPT !.strategy_raised = @ \cup {"rendered"}],
                            HTTP_422_UNPROCESSABLE_ENTITY, "Playwright fetch failed")
                 ELSE RenderedLoop(rendering, w.rendered.urls, w.net, 1)

\* line 157 gave an image: the target URL is itself the candidate
Direct(req, w) == Fetched(FetchImage(w.net[req.url], -1))

\* the request reaches the helper call of line 259
ReachesHelper(req, w) == TruthyStr(req.url) /\ ~Direct(req, w) /\ IsTwitter(req.url)

\* the request reaches the helper call of line 290
ReachesApi(req, env, w) ==
    ReachesHelper(req, w) /\ req.force_method = "api" /\ env.TW_BEARER

\* lines 132-277: the direct fetch and, when it gave no image, the hints of the
\* document and the merge of the helper's URLs
\* req = [url, force_method, preview_only]; env = the os.environ entries read;
\* w = what the network, the page and the helpers give during this request
Gather(req, env, w) ==
    LET r0 == [NoResponse EXCEPT !.op = "fetch_and_save_preview",
                                 !.force_method = req.force_method,
                                 !.preview_only = req.preview_only,
                                 !.url = req.url,
                                 !.TW_BEARER = env.TW_BEARER,
                                 !.HEADLESS_ALLOWED = env.HEADLESS_ALLOWED]
        acc0 == [r0 @@ [seen |-> {}, used_method |-> None, hint_fetches |-> <<>>,
                        helper_fetches |-> <<>>, candidate_sources |-> NoSources]
                     EXCEPT !.calls = {"direct"}]
        direct == FetchImage(w.net[req.url], -1)
        scraped == HintLoop([acc0 EXCEPT !.calls = @ \cup {"document"}],
                            req.url, w.hints, w.net, 1)
        tw_urls == FetchTwitterMediaUrlsWithSources(env.TW_FETCH_METHOD,
                                                    env.TW_BEARER, w.tw)
    IN IF Direct(req, w)
       THEN [acc0 EXCEPT !.used_method = "direct",
                         !.candidates =
                             <<Candidate(req.url, direct.body, direct.ctype)>>]
       ELSE IF IsTwitter(req.url)
       THEN HelperLoop([scraped EXCEPT !.calls = @ \cup {"helper"},
                                       !.api_status =
                                           IF env.TW_BEARER THEN w.tw.api.status ELSE 0],
                       tw_urls, w.net, 1)
       ELSE scraped

\* lines 281-451 of a request that does not reach line 290: the refusal of
\* line 286, or the branch `force_method == 'playwright'`
Branches(acc, req, env, w) ==
    IF acc.status # 0 \/ Direct(req, w) THEN acc
    ELSE IF req.force_method = "api" /\ IsTwitter(req.url)
    THEN ApiBranch(acc, env, w, NoApiResponse)
    ELSE IF req.force_method = "playwright"
    THEN PlaywrightBranch(acc, req.url, env, w)
    ELSE acc

RECURSIVE SizeFilter(_, _)
\* the global floor of the Playwright path: keep (u, b, ct) when len(b) >= min_bytes
SizeFilter(candidates, i) ==
    IF i > Len(candidates) THEN <<>>
    ELSE (IF Truthy(candidates[i].data) /\ candidates[i].data.len >= MinBytes
          THEN <<candidates[i]>> ELSE <<>>)
         \o SizeFilter(candidates, i + 1)

\* mutant: no global floor
NotFiltered(force_method, candidates) == candidates

\* lines 456-475
Filtered(force_method, candidates) ==
    IF force_method = "playwright" THEN SizeFilter(candidates, 1) ELSE candidates

\* the `images` list of a preview_only response
PreviewEntries(candidates) ==
    [i \in 1..Len(candidates) |-> ImageEntry(i - 1, candidates[i])]

\* mutant: a preview_only request goes on to the store like any other
FinishAlwaysStores(acc) ==
    LET r == [f \in DOMAIN NoResponse |-> acc[f]]
        candidates == Filtered(acc.force_method, acc.candidates)
        answered == [r EXCEPT !.method = acc.used_method, !.candidates = candidates]
    IN IF acc.status # 0 THEN r
       ELSE IF acc.candidates = <<>>
       THEN [r EXCEPT !.status = HTTP_422_UNPROCESSABLE_ENTITY,
                      !.detail = "No image candidates found"]
       ELSE answered

\* lines 453-505: the response of a request that returns before line 508;
\* status 0 when the request goes on to the store with its candidates
Finish(acc) ==
    LET r == [f \in DOMAIN NoResponse |-> acc[f]]
        candidates == Filtered(acc.force_method, acc.candidates)
        answered == [r EXCEPT !.method = acc.used_method, !.candidates = candidates]
    IN IF acc.status # 0 THEN r
       ELSE IF acc.candidates = <<>>
       THEN [r EXCEPT !.status = HTTP_422_UNPROCESSABLE_ENTITY,
                      !.detail = "No image candidates found"]
       ELSE IF acc.preview_only
       THEN [answered EXCEPT !.status = HTTP_200_OK, !.detail = "preview",
                             !.images = PreviewEntries(candidates)]
       ELSE answered

\* lines 519-522
SavedResponse(r, saved) ==
    IF saved = <<>>
    THEN [r EXCEPT !.status = HTTP_500_INTERNAL_SERVER_ERROR,
                   !.detail = "Failed to save any preview images"]
    ELSE [r EXCEPT !.status = HTTP_200_OK, !.detail = "saved",
                   !.count = Len(saved), !.images = saved]

\* lines 124-277: the request up to the helper's merge; acc.status # 0 when the
\* handler has already returned
Resolve(req, env, w) ==
    IF ~TruthyStr(req.url)
    THEN [NoResponse EXCEPT !.op = "fetch_and_save_preview",
                            !.force_method = req.force_method,
                            !.preview_only = req.preview_only,
                            !.status = HTTP_400_BAD_REQUEST,
                            !.detail = "No link available on item"]
         @@ [seen |-> {}, used_method |-> None, hint_fetches |-> <<>>,
             helper_fetches |-> <<>>, candidate_sources |-> NoSources]
    ELSE Gather(req, env, w)


\* ------------------------------------------------------------ inputs
SmallLen == MinBytes - 1
BigLen == MinBytes

Targets == {TwitterUrl, PixivUrl, OtherUrl, NoUrl}
ForceMethods == {None, "api", "playwright"}

\* what the target URL answers: an HTML page, or an image below / at the floor
PageResponses(url) ==
    {HttpResponse(200, "text/html", "charset=utf-8", Bytes(url, BigLen)),
     HttpResponse(200, "image/png", "", Bytes(url, SmallLen)),
     HttpResponse(200, "image/jpeg", "", Bytes(url, BigLen))}

\* what the image URLs answer: UrlA may be missing, small or large
ImageResponses(url) ==
    IF url = UrlA
    THEN {HttpResponse(404, "text/html", "", Bytes(url, SmallLen)),
          HttpResponse(200, "image/png", "", Bytes(url, SmallLen)),
          HttpResponse(200, "image/jpeg", "", Bytes(url, BigLen))}
    ELSE {HttpResponse(200, "image/jpeg", "charset=binary", Bytes(url, BigLen))}

\* the hint lists the page's markup gives
HintLists == {<<>>, <<UrlA, UrlB>>, <<RelA, UrlA>>}

NoBackend == BackendResult(FALSE, FALSE, <<>>)
NoneBackend == BackendResult(FALSE, TRUE, <<>>)
\* a Twitter situation: the environment and what the three backends give
TwitterCase(bearer, method, api, scrape, nitter) ==
    [TW_BEARER |-> bearer, TW_FETCH_METHOD |-> method,
     tw |-> [api |-> api, scrape |-> scrape, nitter |-> nitter]]
ApiPhotoA == ApiAnswer(200, <<Media("video", "", UrlB), Media("photo", UrlA, "")>>)
TwitterCases ==
    {TwitterCase(FALSE, "api", ApiPhotoA,
                 BackendResult(FALSE, FALSE, <<UrlA, UrlB>>), NoneBackend),
     TwitterCase(TRUE, "api", ApiPhotoA,
                 BackendResult(FALSE, FALSE, <<UrlA, UrlB>>), NoneBackend),
     TwitterCase(TRUE, "scrape", ApiPhotoA,
                 BackendResult(FALSE, FALSE, <<UrlA>>),
                 BackendResult(FALSE, FALSE, <<UrlB>>)),
     TwitterCase(TRUE, "api", ApiAnswer(429, <<>>),
                 BackendResult(TRUE, FALSE, <<>>),
                 BackendResult(FALSE, FALSE, <<UrlB>>)),
     TwitterCase(TRUE, "api", ApiAnswer(429, <<>>), NoBackend, NoneBackend)}
NoTwitter == TwitterCase(FALSE, "api", ApiAnswer(0, <<>>), NoBackend, NoBackend)

\* what fetch_images_with_playwright gives: an exception or its images
PixivEntry(url, body, ctype) == [url |-> url, body |-> body, ctype |-> ctype]
PixivResults ==
    {[raises |-> TRUE, images |-> <<>>],
     [raises |-> FALSE, images |-> <<PixivEntry(UrlA, Bytes("pix-a", BigLen), "image/jpeg")>>],
     [raises |-> FALSE, images |-> <<PixivEntry(UrlB, Bytes("pix-b", BigLen), None)>>],
     [raises |-> FALSE,
      images |-> <<PixivEntry(UrlA, Bytes("pix-a", BigLen), "image/jpeg;charset=binary")>>],
     [raises |-> FALSE,
      images |-> <<PixivEntry(UrlA, Bytes("pix-s", BigLen), "image/SVG+XML;charset=utf-8"),
                   PixivEntry(UrlB, Bytes("pix-b", BigLen), "image/jpeg")>>],
     [raises |-> FALSE,
      images |-> <<PixivEntry(UrlA, Bytes("pix-s", BigLen),
                              "image/svg+xml;charset=utf-8")>>]}
NoPixiv == [raises |-> TRUE, images |-> <<>>]

\* what fetch_rendered_media gives: an exception or a list of unique URLs
RenderedResults ==
    {[raises |-> TRUE, urls |-> <<>>],
     [raises |-> FALSE, urls |-> <<>>],
     [raises |-> FALSE, urls |-> <<UrlB, UrlA>>]}
NoRendered == [raises |-> TRUE, urls |-> <<>>]

\* the images a client posts to save_previews
ClientImages ==
    {NoDataUri,
     DataUri("nomime", "", Bytes("x", SmallLen)),
     DataUri("ok", "image/png", Bytes("y", BigLen))}

RECURSIVE SeqsUpTo(_, _)
SeqsUpTo(S, n) ==
    IF n = 0 THEN {<<>>}
    ELSE LET shorter == SeqsUpTo(S, n - 1)
         IN shorter \cup {Append(q, x) : q \in shorter, x \in S}

\* the rows a table holds: PreviewImage with its primary key
Row(pk, order, data, content_type) ==
    [pk |-> pk, order |-> order, data |-> data, content_type |-> content_type]

\* one request with its surroundings: the body, the environment, and what the
\* network and the browsers answer
Input(url, force_method, preview_only, page, hints, a, b, tc, HEADLESS_ALLOWED, pixiv, rendered) ==
    [req |-> [url |-> url, force_method |-> force_method,
              preview_only |-> preview_only],
     env |-> [TW_BEARER |-> tc.TW_BEARER, TW_FETCH_METHOD |-> tc.TW_FETCH_METHOD,
              HEADLESS_ALLOWED |-> HEADLESS_ALLOWED],
     w |-> [net |-> [u \in {url, UrlA, UrlB} |->
                        IF u = url THEN page ELSE IF u = UrlA THEN a ELSE b],
            hints |-> hints, tw |-> tc.tw, pixiv |-> pixiv, rendered |-> rendered]]

\* the fetch requests that meet other requests in Spec: a page with two image
\* hints (a small and a large image) in save and in preview mode, a target that
\* is itself a large image, a forced Playwright request whose only candidate
\* is below the floor, and two API-mode requests for the same post to which
\* the API names a photo that is missing and a photo that is there
HtmlPage == HttpResponse(200, "text/html", "charset=utf-8", Bytes(OtherUrl, BigLen))
TweetPage == HttpResponse(200, "text/html", "charset=utf-8", Bytes(TwitterUrl, BigLen))
Missing(u) == HttpResponse(404, "text/html", "", Bytes(u, SmallLen))
SmallImage(u) == HttpResponse(200, "image/png", "", Bytes(u, SmallLen))
BigImage(u) == HttpResponse(200, "image/jpeg", "", Bytes(u, BigLen))
StoreInputs ==
    {Input(OtherUrl, None, po, HtmlPage, <<UrlA, UrlB>>, SmallImage(UrlA), BigImage(UrlB),
           NoTwitter, FALSE, NoPixiv, NoRendered) : po \in BOOLEAN}
    \cup {Input(OtherUrl, None, FALSE, BigImage(OtherUrl), <<>>, TransportError,
                TransportError, NoTwitter, FALSE, NoPixiv, NoRendered),
          Input(OtherUrl, "playwright", FALSE, SmallImage(OtherUrl), <<>>, TransportError,
                TransportError, NoTwitter, FALSE, NoPixiv, NoRendered)}
    \cup {Input(TwitterUrl, "api", FALSE, TweetPage, <<>>, Missing(UrlA), BigImage(UrlB),
                TwitterCase(TRUE, "api", ApiAnswer(200, <<Media("photo", u, "")>>),
                            NoBackend, NoBackend),
                FALSE, NoPixiv, NoRendered) : u \in {UrlA, UrlB}}

\* the stores a behaviour of Spec begins with: no preview, the two previews
\* the first of the StoreInputs leaves when it is saved, or three previews
Seeds ==
    {<<>>,
     <<Row(1, 0, Bytes(UrlA, SmallLen), "image/png"),
       Row(2, 1, Bytes(UrlB, BigLen), "image/jpeg")>>,
     <<Row(1, 0, Bytes(UrlA, SmallLen), "image/png"),
       Row(2, 1, Bytes(UrlB, BigLen), "image/jpeg"),
       Row(3, 2, Bytes("y", BigLen), "image/png")>>}

\* the images a browser session hands to the fetch_with_playwright command
CommandImages ==
    {<<Entry(0, UrlA, Bytes("pw-a", SmallLen), "image/png")>>,
     <<Entry(0, UrlA, Bytes("pw-a", SmallLen), "image/png"),
       Entry(1, UrlB, Bytes("pw-b", BigLen), "image/jpeg")>>}

\* a dumpdata fixture for the item: its previewimage entries and the legacy
\* blob of its item entry
Fixture(images, legacy) == [images |-> images, legacy |-> legacy]
Fixtures ==
    {Fixture(<<Entry(1, None, Bytes("y", BigLen), "image/png")>>, NoLegacy),
     Fixture(<<>>, Legacy(Bytes("restored", SmallLen), "image/png")),
     Fixture(<<>>, NoLegacy)}

\* no single call is followed / no request has begun
NoCall == [fn |-> "none"]
NoWorkers == <<>>

\* ---------------------------------------------------------- requests
\* A request that has begun to write is an entry of `workers` until it has
\* answered: pc names its next statement, resp is the response it is building
\* (resp.before: the list a preview_index DELETE read first), todo the creates
\* of its loop, idx the position of the next one, saved its `saved` list,
\* remaining the second list of a DELETE, legacy the blob a restore carries,
\* inp and acc the input and the locals of a resolution that is under way.
\* alone: no other such request has been under way at the same time.
Request(op, pc, resp, todo) ==
    [op |-> op, pc |-> pc, alone |-> TRUE, resp |-> resp, todo |-> todo, idx |-> 1,
     saved |-> <<>>, remaining |-> <<>>, legacy |-> NoLegacy, inp |-> NoCall,
     acc |-> NoResponse]
\* a request that has answered
Done == Request("done", "done", NoResponse, <<>>)

\* the requests the model follows in one behaviour, and side by side
MaxRequests == 2
MaxInFlight == 2

InFlight == {w \in 1..Len(workers) : workers[w].pc # "done"}
\* the row instances the running requests hold
Held ==
    UNION {Pks(workers[w].resp.before) \cup Pks(workers[w].remaining) :
              w \in 1..Len(workers)}
\* the answer before has been taken: `last` shows one answer at a time
Free == last.op = "none"
CanBegin == Len(workers) < MaxRequests /\ Cardinality(InFlight) < MaxInFlight
\* the requests under way when another one begins have not run alone
Joined ==
    [w \in 1..Len(workers) |->
        IF workers[w].pc = "done" THEN workers[w]
        ELSE [workers[w] EXCEPT !.alone = FALSE]]
Begun(q) == Append(Joined, [q EXCEPT !.alone = (InFlight = {})])
\* a request begins that writes no PreviewImage row
Entered(q) == Append(workers, q)
\* a request that wrote and answered within its first statement
Passed == <<Done>> \o Joined
\* request w goes on
Move(w, q) == workers' = [workers EXCEPT ![w] = q] /\ last' = last
\* request w returns r
Answer(w, r) ==
    /\ last' = [r EXCEPT !.alone = workers[w].alone]
    /\ workers' = <<Done>> \o RemoveAt(workers, w)
Reached(w, op, pc) ==
    /\ Free
    /\ w \in InFlight
    /\ workers[w].op = op
    /\ workers[w].pc = pc

\* the closing lines of a store loop: 519-522 and 549-550
Closing(op, r, saved) ==
    IF op = "save_previews" THEN SavePreviewsResponse(r, saved)
    ELSE SavedResponse(r, saved)

\* one round of a store loop, lines 512 and 544: the create of todo[idx], which
\* may raise, and the return when it was the last one
CreateStep(w) ==
    LET q == workers[w]
        e == q.todo[q.idx]
    IN \E raises \in BOOLEAN :
       LET saved == IF raises THEN q.saved ELSE Append(q.saved, ImageEntry(e.order, e))
           resp == IF raises THEN [q.resp EXCEPT !.failed = @ \cup {e.order + 1}]
                   ELSE q.resp
           next == AfterCreate(q.idx, Len(q.todo), raises)
       IN /\ preview_images' =
                 Create(preview_images, PreviewImage(e.order, e.data, e.content_type),
                        NextPk(preview_images, Held), raises)
          /\ IF next = 0 THEN Answer(w, Closing(q.op, resp, saved))
             ELSE Move(w, [q EXCEPT !.idx = next, !.saved = saved, !.resp = resp])

\* ----------------------------------------------------------- actions
Init ==
    /\ preview_images \in Seeds
    /\ preview_data \in {NoLegacy, Legacy(Bytes("legacy", SmallLen), "image/gif")}
    /\ LAST_TW_API_RESP = [k \in {} |-> NoApiResponse]
    /\ last = NoResponse
    /\ call = NoCall
    /\ workers = NoWorkers

\* GET /items/<pk>/preview/[?index=...], line 100: get_object() loads the item
\* with its legacy fields.  With an index these are not used, and the request
\* is followed to its answer (lines 101-111) at once
preview ==
    /\ Free
    /\ \E index \in {[given |-> FALSE, int |-> TRUE, val |-> 0],
                     [given |-> TRUE, int |-> FALSE, val |-> 0]}
                    \cup {[given |-> TRUE, int |-> TRUE, val |-> v] :
                             v \in -1..Len(preview_images)} :
          IF index.given
          THEN /\ last' = PreviewResponse(preview_images, preview_data, index)
               /\ workers' = workers
          ELSE /\ CanBegin
               /\ workers' = Entered([Request("preview", "select", NoResponse, <<>>)
                                         EXCEPT !.legacy = preview_data])
               /\ last' = last
    /\ UNCHANGED <<preview_images, preview_data, LAST_TW_API_RESP, call>>

\* lines 101-120 of a preview without index: the select of the rows, and the
\* answer from them or from the legacy fields as get_object() loaded them
PreviewSelect(w) ==
    /\ Reached(w, "preview", "select")
    /\ Answer(w, [PreviewResponse(preview_images, workers[w].legacy,
                                  [given |-> FALSE, int |-> TRUE, val |-> 0])
                     EXCEPT !.legacy = workers[w].legacy])
    /\ UNCHANGED <<preview_images, preview_data, LAST_TW_API_RESP, call>>

\* GET | DELETE /items/<pk>/previews/<idx>/, lines 561-571 and the GET branch
preview_index ==
    /\ Free
    /\ \E method \in {"GET", "DELETE"} :
       \E idx \in {[int |-> FALSE, val |-> 0]}
                  \cup {[int |-> TRUE, val |-> v] : v \in -1..Len(preview_images)} :
          LET r == PreviewIndexResponse(preview_images, idx, method)
          IN IF r.status # 0
             THEN last' = r /\ workers' = workers
             ELSE /\ CanBegin
                  /\ workers' = Begun(Request("preview_index", "delete", r, <<>>))
                  /\ last' = last
    /\ UNCHANGED <<preview_images, preview_data, LAST_TW_API_RESP, call>>

\* lines 575-576: target = imgs[idxi]; target.delete()
TargetDelete(w) ==
    /\ Reached(w, "preview_index", "delete")
    /\ LET q == workers[w]
           target == ListItem(q.resp.before, q.resp.index)
       IN \E raises \in BOOLEAN :
          IF raises
          THEN /\ preview_images' = preview_images
               /\ Answer(w, DeleteResponse(q.resp, TRUE))
          ELSE /\ preview_images' = DeletePk(preview_images, target.pk)
               /\ Move(w, [q EXCEPT !.pc = "select"])
    /\ UNCHANGED <<preview_data, LAST_TW_API_RESP, call>>

\* line 578: remaining = list(item.preview_images.order_by('order')), and the
\* rounds of the loop that find nothing to save
SelectRemaining(w) ==
    /\ Reached(w, "preview_index", "select")
    /\ LET q == workers[w]
           remaining == Imgs(preview_images)
           k == NextStale(remaining, 1)
       IN \E raises \in BOOLEAN :
          IF raises THEN Answer(w, DeleteResponse(q.resp, TRUE))
          ELSE IF k = 0 THEN Answer(w, DeleteResponse(q.resp, FALSE))
          ELSE Move(w, [q EXCEPT !.pc = "renumber", !.remaining = remaining, !.idx = k])
    /\ UNCHANGED <<preview_images, preview_data, LAST_TW_API_RESP, call>>

\* lines 579-582: img.order = new_idx; img.save() for the next row whose order
\* is not its position, and the return when it was the last one
RenumberSave(w) ==
    /\ Reached(w, "preview_index", "renumber")
    /\ LET q == workers[w]
           img == [q.remaining[q.idx] EXCEPT !.order = q.idx - 1]
           next == NextStale(q.remaining, q.idx + 1)
       IN \E raises \in BOOLEAN :
          IF raises
          THEN /\ preview_images' = preview_images
               /\ Answer(w, DeleteResponse(q.resp, TRUE))
          ELSE /\ preview_images' = Save(preview_images, img)
               /\ IF next = 0 THEN Answer(w, DeleteResponse(q.resp, FALSE))
                  ELSE Move(w, [q EXCEPT !.idx = next])
    /\ UNCHANGED <<preview_data, LAST_TW_API_RESP, call>>

\* POST /items/<pk>/save_previews/, lines 524-532: the checks of the body and
\* the delete of the item's rows, which is outside any try
save_previews ==
    /\ Free
    /\ \E images \in SeqsUpTo(ClientImages, MaxImages) :
       LET r == [NoResponse EXCEPT !.op = "save_previews"]
           todo == Decoded(images, 1)
       IN IF images = <<>>
          THEN /\ last' = [r EXCEPT !.status = HTTP_400_BAD_REQUEST,
                                    !.detail = "No images provided"]
               /\ UNCHANGED <<preview_images, workers>>
          ELSE \E raises \in BOOLEAN :
               IF raises
               THEN /\ last' = [Escaped(r) EXCEPT !.failed = DeleteFails]
                    /\ UNCHANGED <<preview_images, workers>>
               ELSE /\ CanBegin
                    /\ preview_images' = DeleteAll(preview_images)
                    /\ IF todo = <<>>
                       THEN /\ last' = [SavePreviewsResponse(r, <<>>)
                                            EXCEPT !.alone = (InFlight = {})]
                            /\ workers' = Passed
                       ELSE /\ workers' = Begun(Request("save_previews", "create", r, todo))
                            /\ last' = last
    /\ UNCHANGED <<preview_data, LAST_TW_API_RESP, call>>

\* line 544 of save_previews
SaveImage(w) ==
    /\ Reached(w, "save_previews", "create")
    /\ CreateStep(w)
    /\ UNCHANGED <<preview_data, LAST_TW_API_RESP, call>>

\* lines 453-505 of a request under way: its answer, or the way on to line 508
Conclude(w, acc) ==
    LET r == Finish(acc)
    IN IF r.status # 0 THEN Answer(w, r)
       ELSE Move(w, [workers[w] EXCEPT !.pc = "delete", !.resp = r,
                                       !.todo = Numbered(r.candidates)])

\* POST /items/<pk>/fetch_and_save_preview/ from line 124 on.  The fetches of
\* the request touch nothing that requests share; the helper call of line 259
\* stores the API's answer in LAST_TW_API_RESP (utils.py:41).  A request that
\* does not reach line 290 is followed to its answer or to line 508
BeginFetch(inp) ==
    LET req == inp.req
        env == inp.env
        acc == Resolve(req, env, inp.w)
        r == Finish(Branches(acc, req, env, inp.w))
        begun(pc, resp, todo) ==
            Begun([Request("fetch_and_save_preview", pc, resp, todo)
                      EXCEPT !.inp = inp, !.acc = acc])
    IN /\ Free
       /\ LAST_TW_API_RESP' =
              IF ReachesHelper(req, inp.w)
              THEN ApiCacheAfter(LAST_TW_API_RESP, env.TW_BEARER, inp.w.tw.api,
                                 TweetId(req.url))
              ELSE LAST_TW_API_RESP
       /\ IF ReachesApi(req, env, inp.w)
          THEN /\ CanBegin
               /\ workers' = begun("api", NoResponse, <<>>)
               /\ last' = last
          ELSE IF r.status # 0
          THEN last' = r /\ workers' = workers
          ELSE /\ CanBegin
               /\ workers' = begun("delete", r, Numbered(r.candidates))
               /\ last' = last
       /\ UNCHANGED <<preview_images, preview_data>>

fetch_and_save_preview ==
    /\ \E inp \in StoreInputs : BeginFetch(inp)
    /\ UNCHANGED call

\* line 290: the helper is called again and stores the API's answer once more;
\* lines 292-304: the API's URLs are fetched, and what fetched is the result
ApiAgain(w) ==
    /\ Reached(w, "fetch_and_save_preview", "api")
    /\ LET q == workers[w]
           env == q.inp.env
           tw_urls == FetchTwitterMediaUrlsWithSources(env.TW_FETCH_METHOD,
                                                       env.TW_BEARER, q.inp.w.tw)
           api_candidates == FetchEach(UrlsWhere(tw_urls, TRUE, 1), q.inp.w.net, -1, 1)
       IN /\ LAST_TW_API_RESP' =
                 ApiCacheAfter(LAST_TW_API_RESP, env.TW_BEARER, q.inp.w.tw.api,
                               TweetId(q.inp.req.url))
          /\ IF api_candidates # <<>>
             THEN Conclude(w, ApiBranch(q.acc, env, q.inp.w, NoApiResponse))
             ELSE Move(w, [q EXCEPT !.pc = "api_debug"])
    /\ UNCHANGED <<preview_images, preview_data, call>>

\* line 311: api_debug = get_last_api_response(target_url), the entry that is
\* in LAST_TW_API_RESP now, and lines 319-354.  The helper call of line 322
\* follows a stored status of 429, which utils.py:37 keeps from being stored
ReadApiResponse(w) ==
    /\ Reached(w, "fetch_and_save_preview", "api_debug")
    /\ LET q == workers[w]
           env == q.inp.env
           api_debug == GetLastApiResponse(LAST_TW_API_RESP, q.inp.req.url)
       IN /\ LAST_TW_API_RESP' =
                 IF api_debug.status = 429
                 THEN ApiCacheAfter(LAST_TW_API_RESP, env.TW_BEARER, q.inp.w.tw.api,
                                    TweetId(q.inp.req.url))
                 ELSE LAST_TW_API_RESP
          /\ Conclude(w, ApiBranch(q.acc, env, q.inp.w, api_debug))
    /\ UNCHANGED <<preview_images, preview_data, call>>

\* line 508: PreviewImage.objects.filter(item=item).delete(), outside any try
StoreDelete(w) ==
    /\ Reached(w, "fetch_and_save_preview", "delete")
    /\ LET q == workers[w]
       IN \E raises \in BOOLEAN :
          IF raises
          THEN /\ preview_images' = preview_images
               /\ Answer(w, [Escaped(q.resp) EXCEPT !.failed = DeleteFails])
          ELSE /\ preview_images' = DeleteAll(preview_images)
               /\ IF q.todo = <<>> THEN Answer(w, SavedResponse(q.resp, <<>>))
                  ELSE Move(w, [q EXCEPT !.pc = "create"])
    /\ UNCHANGED <<preview_data, LAST_TW_API_RESP, call>>

\* line 512 of fetch_and_save_preview
StoreCreate(w) ==
    /\ Reached(w, "fetch_and_save_preview", "create")
    /\ CreateStep(w)
    /\ UNCHANGED <<preview_data, LAST_TW_API_RESP, call>>

\* POST admin/restore_previews/ (restore_previews_upload, views.py:649): the
\* checks, and the run of restore_previews_from_fixture up to its first write
restore_previews_upload ==
    /\ Free
    /\ \E authorised \in BOOLEAN, uploaded \in BOOLEAN, dry \in BOOLEAN :
       \E fixture \in Fixtures :
          LET r == [NoResponse EXCEPT !.op = "restore_previews_upload"]
              ok == [r EXCEPT !.status = HTTP_200_OK, !.detail = "ok"]
          IN IF ~authorised
             THEN /\ last' = [r EXCEPT !.status = HTTP_403_FORBIDDEN,
                                       !.detail = "Forbidden"]
                  /\ workers' = workers
             ELSE IF ~uploaded
             THEN /\ last' = [r EXCEPT !.status = HTTP_400_BAD_REQUEST,
                                       !.detail = "No file uploaded"]
                  /\ workers' = workers
             ELSE IF dry
             THEN /\ last' = [ok EXCEPT !.count = Len(fixture.images)]
                  /\ workers' = workers
             ELSE IF fixture.images = <<>> /\ ~Truthy(fixture.legacy.data)
             THEN /\ last' = ok
                  /\ workers' = workers
             ELSE /\ CanBegin
                  /\ workers' =
                        Begun([Request("restore_previews_upload",
                                       IF fixture.images # <<>> THEN "delete" ELSE "exists",
                                       ok, fixture.images)
                                  EXCEPT !.legacy = fixture.legacy])
                  /\ last' = last
    /\ UNCHANGED <<preview_images, preview_data, LAST_TW_API_RESP, call>>

\* an exception of the command: the except branch of restore_previews_upload
RestoreFailed(r) ==
    [r EXCEPT !.status = HTTP_500_INTERNAL_SERVER_ERROR, !.detail = "error"]

\* restore_previews_from_fixture.py:130, the delete of the rows of that order
RestoreDelete(w) ==
    /\ Reached(w, "restore_previews_upload", "delete")
    /\ LET q == workers[w]
       IN \E raises \in BOOLEAN :
          IF raises
          THEN /\ preview_images' = preview_images
               /\ Answer(w, RestoreFailed(q.resp))
          ELSE /\ preview_images' = DeleteOrder(preview_images, q.todo[q.idx].order)
               /\ Move(w, [q EXCEPT !.pc = "create"])
    /\ UNCHANGED <<preview_data, LAST_TW_API_RESP, call>>

\* restore_previews_from_fixture.py:131, the create at the fixture's order
RestoreCreate(w) ==
    /\ Reached(w, "restore_previews_upload", "create")
    /\ LET q == workers[w]
           e == q.todo[q.idx]
           resp == [q.resp EXCEPT !.count = @ + 1]
       IN \E raises \in BOOLEAN :
          /\ preview_images' =
                 Create(preview_images, PreviewImage(e.order, e.data, e.content_type),
                        NextPk(preview_images, Held), raises)
          /\ IF raises THEN Answer(w, RestoreFailed(q.resp))
             ELSE IF q.idx < Len(q.todo)
             THEN Move(w, [q EXCEPT !.pc = "delete", !.idx = @ + 1, !.resp = resp])
             ELSE IF Truthy(q.legacy.data)
             THEN Move(w, [q EXCEPT !.pc = "exists", !.resp = resp])
             ELSE Answer(w, resp)
    /\ UNCHANGED <<preview_data, LAST_TW_API_RESP, call>>

\* restore_previews_from_fixture.py:161, cur_item.preview_images.exists()
RestoreExists(w) ==
    /\ Reached(w, "restore_previews_upload", "exists")
    /\ LET q == workers[w]
       IN IF preview_images # <<>> THEN Answer(w, q.resp)
          ELSE Move(w, [q EXCEPT !.pc = "legacy"])
    /\ UNCHANGED <<preview_images, preview_data, LAST_TW_API_RESP, call>>

\* restore_previews_from_fixture.py:162-164, the write of the legacy fields
RestoreLegacy(w) ==
    /\ Reached(w, "restore_previews_upload", "legacy")
    /\ LET q == workers[w]
       IN \E raises \in BOOLEAN :
          IF raises
          THEN /\ preview_data' = preview_data
               /\ Answer(w, RestoreFailed(q.resp))
          ELSE /\ preview_data' = q.legacy
               /\ Answer(w, q.resp)
    /\ UNCHANGED <<preview_images, LAST_TW_API_RESP, call>>

\* POST /items/<pk>/update_fields/, lines 600-625: get_object() loads the item,
\* the body is checked and the new values are set on the instance
update_fields ==
    /\ Free
    /\ \E body \in {"characters", "characters not a list", "nothing"} :
       LET r == [NoResponse EXCEPT !.op = "update_fields"]
       IN IF body = "characters not a list"
          THEN /\ last' = [r EXCEPT !.status = HTTP_400_BAD_REQUEST,
                                    !.detail = "characters must be a list"]
               /\ workers' = workers
          ELSE IF body = "nothing"
          THEN /\ last' = [r EXCEPT !.status = HTTP_400_BAD_REQUEST,
                                    !.detail = "No updatable fields provided"]
               /\ workers' = workers
          ELSE /\ CanBegin
               /\ workers' = Entered([Request("update_fields", "save", r, <<>>)
                                         EXCEPT !.legacy = preview_data])
               /\ last' = last
    /\ UNCHANGED <<preview_images, preview_data, LAST_TW_API_RESP, call>>

\* lines 628-635: item.save() writes every column of the item's row, the legacy
\* fields with the values get_object() loaded
ItemSave(w) ==
    /\ Reached(w, "update_fields", "save")
    /\ LET q == workers[w]
       IN \E raises \in BOOLEAN :
          IF raises
          THEN /\ preview_data' = preview_data
               /\ Answer(w, [q.resp EXCEPT !.status = HTTP_500_INTERNAL_SERVER_ERROR,
                                           !.detail = "Failed to save"])
          ELSE /\ preview_data' = q.legacy
               /\ Answer(w, [q.resp EXCEPT !.status = HTTP_200_OK, !.detail = "updated"])
    /\ UNCHANGED <<preview_images, LAST_TW_API_RESP, call>>

\* manage.py fetch_with_playwright --item-id <pk>: the command has the images
\* of the browser session in hand (line 72); an empty list writes nothing
fetch_with_playwright ==
    /\ Free
    /\ CanBegin
    /\ \E images \in CommandImages :
          workers' = Begun(Request("fetch_with_playwright", "delete",
                                   [NoResponse EXCEPT !.op = "fetch_with_playwright"],
                                   images))
    /\ UNCHANGED <<preview_images, preview_data, LAST_TW_API_RESP, last, call>>

\* the command after the write of the image at position idx: the next image,
\* or the end of the command
CommandNext(w, q) ==
    IF q.idx < Len(q.todo) THEN Move(w, [q EXCEPT !.pc = "delete", !.idx = @ + 1])
    ELSE Answer(w, [q.resp EXCEPT !.detail = "done"])

\* fetch_with_playwright.py:95, the delete of the item's rows in the writer
\* thread of the image at position idx; an exception ends that thread only
CommandDelete(w) ==
    /\ Reached(w, "fetch_with_playwright", "delete")
    /\ LET q == workers[w]
       IN \E raises \in BOOLEAN :
          IF raises
          THEN /\ preview_images' = preview_images
               /\ CommandNext(w, q)
          ELSE /\ preview_images' = DeleteAll(preview_images)
               /\ Move(w, [q EXCEPT !.pc = "create"])
    /\ UNCHANGED <<preview_data, LAST_TW_API_RESP, call>>

\* fetch_with_playwright.py:97-99, the create of the largest image collected so
\* far as order 0
CommandCreate(w) ==
    /\ Reached(w, "fetch_with_playwright", "create")
    /\ LET q == workers[w]
           best == Best(SubSeq(q.todo, 1, q.idx))
       IN \E raises \in BOOLEAN :
          /\ preview_images' =
                 Create(preview_images, PreviewImage(0, best.data, best.content_type),
                        NextPk(preview_images, Held), raises)
          /\ CommandNext(w, q)
    /\ UNCHANGED <<preview_data, LAST_TW_API_RESP, call>>

\* the client takes the response
Respond ==
    /\ last.op # "none"
    /\ last' = NoResponse
    /\ UNCHANGED <<preview_images, preview_data, LAST_TW_API_RESP, call, workers>>

Next ==
    \/ preview
    \/ \E w \in 1..Len(workers) : PreviewSelect(w)
    \/ preview_index
    \/ \E w \in 1..Len(workers) : TargetDelete(w)
    \/ \E w \in 1..Len(workers) : SelectRemaining(w)
    \/ \E w \in 1..Len(workers) : RenumberSave(w)
    \/ save_previews
    \/ \E w \in 1..Len(workers) : SaveImage(w)
    \/ fetch_and_save_preview
    \/ \E w \in 1..Len(workers) : ApiAgain(w)
    \/ \E w \in 1..Len(workers) : ReadApiResponse(w)
    \/ \E w \in 1..Len(workers) : StoreDelete(w)
    \/ \E w \in 1..Len(workers) : StoreCreate(w)
    \/ update_fields
    \/ \E w \in 1..Len(workers) : ItemSave(w)
    \/ restore_previews_upload
    \/ \E w \in 1..Len(workers) : RestoreDelete(w)
    \/ \E w \in 1..Len(workers) : RestoreCreate(w)
    \/ \E w \in 1..Len(workers) : RestoreExists(w)
    \/ \E w \in 1..Len(workers) : RestoreLegacy(w)
    \/ fetch_with_playwright
    \/ \E w \in 1..Len(workers) : CommandDelete(w)
    \/ \E w \in 1..Len(workers) : CommandCreate(w)
    \/ Respond

Spec == Init /\ [][Next]_vars

\* ------------------------------------ one request, every resolution
\* One fetch_and_save_preview request against a store that holds nothing or one
\* earlier preview: the request, the environment and what the network answers
\* are drawn from the whole of the input sets; the statements are those of Spec.
RequestSeeds == {<<>>, <<Row(1, 0, Bytes("prior", SmallLen), "image/gif")>>}

InitRequest ==
    /\ preview_images \in RequestSeeds
    /\ preview_data = Legacy(Bytes("legacy", SmallLen), "image/gif")
    /\ LAST_TW_API_RESP \in
           {[k \in {} |-> NoApiResponse],
            ApiCacheAfter([k \in {} |-> NoApiResponse], TRUE, ApiPhotoA, TweetId(TwitterUrl))}
    /\ last = NoResponse
    /\ workers = NoWorkers
    /\ \E url \in Targets, force_method \in ForceMethods, preview_only \in BOOLEAN :
       \E page \in (IF url = NoUrl THEN {TransportError} ELSE PageResponses(url)) :
       LET scrape == url # NoUrl /\ ~Fetched(FetchImage(page, -1))
           browse == scrape /\ force_method = "playwright"
       IN
       \E hints \in (IF scrape THEN HintLists ELSE {<<>>}) :
       \E a \in (IF scrape THEN ImageResponses(UrlA) ELSE {TransportError}) :
       \E b \in (IF scrape THEN ImageResponses(UrlB) ELSE {TransportError}) :
       \E tc \in (IF scrape /\ IsTwitter(url) THEN TwitterCases ELSE {NoTwitter}) :
       \E HEADLESS_ALLOWED \in (IF browse THEN BOOLEAN ELSE {FALSE}) :
       \E pixiv \in (IF browse /\ HEADLESS_ALLOWED /\ IsPixiv(url)
                     THEN PixivResults ELSE {NoPixiv}) :
       \E rendered \in (IF browse /\ HEADLESS_ALLOWED
                        THEN RenderedResults ELSE {NoRendered}) :
          call = [fn |-> "request", begun |-> FALSE, rows |-> preview_images,
                  legacy |-> preview_data,
                  inp |-> Input(url, force_method, preview_only, page, hints, a, b,
                                tc, HEADLESS_ALLOWED, pixiv, rendered)]

\* the request arrives
Receive ==
    /\ call.fn = "request"
    /\ ~call.begun
    /\ BeginFetch(call.inp)
    /\ call' = [call EXCEPT !.begun = TRUE]

NextRequest ==
    \/ Receive
    \/ \E w \in 1..Len(workers) : ApiAgain(w)
    \/ \E w \in 1..Len(workers) : ReadApiResponse(w)
    \/ \E w \in 1..Len(workers) : StoreDelete(w)
    \/ \E w \in 1..Len(workers) : StoreCreate(w)

RequestSpec == InitRequest /\ [][NextRequest]_vars


\* ------------------------------ playwright_helper.py: the pixiv URLs
\* a URL as urlparse splits it.  The path is a sequence of atoms: a slash, a
\* path segment, or a part of the file name.  valid = FALSE is a string for
\* which urlparse raises
Url(scheme, netloc, path, query, fragment) ==
    [valid |-> TRUE, scheme |-> scheme, netloc |-> netloc, path |-> path,
     query |-> query, fragment |-> fragment]
BadUrl ==
    [valid |-> FALSE, scheme |-> "http", netloc |-> "[bad", path |-> <<>>,
     query |-> "", fragment |-> ""]

\* 'pixiv' in h or 'pximg' in h (a case-sensitive substring test)
_is_pixiv_host(h) == h \in {"i.pximg.net", "www.pixiv.net"}

\* the atoms matching \d+x\d+, _master\d+ and _p\d+
IsSize(a) == a \in {"250x250"}
IsMaster(a) == a \in {"_master12", "_master1200"}
IsPage(a) == a \in {"_p0", "_p1", "_p2", "_p3", "_p4", "_p5", "_p6", "_p7", "_p12"}

StartsWith(s, pre) == Len(s) >= Len(pre) /\ SubSeq(s, 1, Len(pre)) = pre
Contains(s, sub) ==
    \E i \in 1..(Len(s) - Len(sub) + 1) : SubSeq(s, i, i + Len(sub) - 1) = sub

RECURSIVE Replace(_, _, _, _)
\* str.replace(old, new, count): the occurrences are taken from the left and
\* do not overlap; count = -1 replaces all
Replace(s, old, new, count) ==
    IF s = <<>> \/ count = 0 THEN s
    ELSE IF StartsWith(s, old)
         THEN new \o Replace(SubSeq(s, Len(old) + 1, Len(s)), old, new, count - 1)
         ELSE <<s[1]>> \o Replace(Tail(s), old, new, count)

\* re.sub(r'^/c/\d+x\d+/img-master', '/img-master', path)
StripSizePrefix(path) ==
    IF /\ Len(path) >= 6
       /\ SubSeq(path, 1, 3) = <<"/", "c", "/">>
       /\ IsSize(path[4])
       /\ SubSeq(path, 5, 6) = <<"/", "img-master">>
    THEN <<"/", "img-master">> \o SubSeq(path, 7, Len(path))
    ELSE path

RECURSIVE DropMasterBeforeDot(_)
\* re.sub(r'_master\d+(?=\.)', '', path)
DropMasterBeforeDot(path) ==
    IF path = <<>> THEN <<>>
    ELSE IF IsMaster(path[1]) /\ Len(path) >= 2 /\ path[2] = "."
         THEN DropMasterBeforeDot(Tail(path))
         ELSE <<path[1]>> \o DropMasterBeforeDot(Tail(path))

RECURSIVE DropMasterAfterPage(_)
\* re.sub(r'(_p\d+)_master\d+', r'\1', path)
DropMasterAfterPage(path) ==
    IF path = <<>> THEN <<>>
    ELSE IF Len(path) >= 2 /\ IsPage(path[1]) /\ IsMaster(path[2])
         THEN <<path[1]>> \o DropMasterAfterPage(SubSeq(path, 3, Len(path)))
         ELSE <<path[1]>> \o DropMasterAfterPage(Tail(path))

\* the `img` segment of the originals: /img-original/ becomes /img-original/img/
InsertImg(path) ==
    IF Contains(path, <<"/", "img-original", "/">>)
       /\ ~Contains(path, <<"/", "img-original", "/", "img", "/">>)
    THEN Replace(path, <<"/", "img-original", "/">>,
                 <<"/", "img-original", "/", "img", "/">>, 1)
    ELSE path

\* the rewriting of the path, lines 212-219
OriginalPath(path) ==
    InsertImg(DropMasterAfterPage(DropMasterBeforeDot(
        Replace(StripSizePrefix(path), <<"/", "img-master", "/">>,
                <<"/", "img-original", "/">>, -1))))

\* the URL that the string f"{scheme}://{netloc}{path}" is: without a scheme
\* the string starts with "://" and all of it is a path
Formatted(scheme, netloc, path) ==
    IF scheme = "" THEN Url("", "", <<"://", netloc>> \o path, "", "")
    ELSE Url(scheme, netloc, path, "", "")

\* mutant: the path is rewritten whatever the host
make_pixiv_original_candidate_any_host(url) ==
    IF ~url.valid THEN url
    ELSE Formatted(url.scheme, url.netloc, OriginalPath(url.path))

make_pixiv_original_candidate(url) ==
    IF ~url.valid THEN url
    ELSE IF ~_is_pixiv_host(url.netloc) THEN url
         ELSE Formatted(url.scheme, url.netloc, OriginalPath(url.path))

\* playwright_helper.py: the page variants tried for one discovered URL
MAX_PAGES == 8

\* re.search(r'_p\d+', path)
HasPage(path) == \E k \in 1..Len(path) : IsPage(path[k])

\* re.sub(r'(_p)\d+', r'\1{}', u): every page token becomes a placeholder
BaseTemplate(u) ==
    [u EXCEPT !.path = [k \in 1..Len(u.path) |->
                           IF IsPage(u.path[k]) THEN "_p{}" ELSE u.path[k]]]

\* base_template.format(i) raises IndexError when there is a second placeholder
FormatRaises(t) == Cardinality({k \in 1..Len(t.path) : t.path[k] = "_p{}"}) > 1

PageToken(i) == <<"_p0", "_p1", "_p2", "_p3", "_p4", "_p5", "_p6", "_p7">>[i + 1]

\* base_template.format(i)
Format(t, i) ==
    [t EXCEPT !.path = [k \in 1..Len(t.path) |->
                           IF t.path[k] = "_p{}" THEN PageToken(i) ELSE t.path[k]]]

\* `if c in seen_urls: continue`, else the URL is noted and its fetch attempted
Attempt(acc, c) ==
    IF c \in acc.seen_urls THEN acc
    ELSE [seen_urls |-> acc.seen_urls \cup {c}, attempted |-> Append(acc.attempted, c)]

RECURSIVE PageLoop(_, _, _)
\* for i in range(0, MAX_PAGES): format, normalise, skip the seen
PageLoop(acc, base_template, i) ==
    IF i >= MAX_PAGES THEN acc
    ELSE IF FormatRaises(base_template) THEN PageLoop(acc, base_template, i + 1)
         ELSE PageLoop(Attempt(acc, make_pixiv_original_candidate(Format(base_template, i))),
                       base_template, i + 1)

\* one round of `for u in candidates`: acc = [seen_urls, attempted]
CandidateUrls(acc, u) ==
    IF u.valid /\ HasPage(u.path)
    THEN PageLoop(acc, BaseTemplate(u), 0)
    ELSE Attempt(acc, make_pixiv_original_candidate(u))

\* the URLs the helper is given
PixivHosts == {"i.pximg.net", "www.pixiv.net", "example.org", "I.PXIMG.NET"}
PixivDirs ==
    {<<"/", "img-master", "/", "img", "/">>,
     <<"/", "c", "/", "250x250", "/", "img-master", "/", "img", "/">>,
     <<"/", "c", "/", "250x250_80_a2", "/", "img-master", "/", "img", "/">>,
     <<"/", "img-original", "/", "img", "/">>,
     <<"/", "img-original", "/">>,
     <<"/", "img-master", "/", "img-master", "/">>,
     <<"/", "custom-thumb", "/", "img", "/">>,
     <<"/", "artworks", "/">>}
PixivNames ==
    {<<>>, <<"_p0">>, <<"_p3", "_master1200">>, <<"_p0", "_square1200">>,
     <<"_master1200">>, <<"_master12", "_master1200">>,
     <<"_p0", "_p1", "_master1200">>, <<"_p12", "_master1200">>}
PixivExts == {<<>>, <<".", "jpg">>}
PixivTails == {[query |-> "", fragment |-> ""], [query |-> "lang=en", fragment |-> "top"]}
PixivInputs ==
    {BadUrl} \cup
    {Url(scheme, host, dir \o <<"123">> \o name \o ext, tail.query, tail.fragment) :
        scheme \in {"https", ""}, host \in PixivHosts, dir \in PixivDirs,
        name \in PixivNames, ext \in PixivExts, tail \in PixivTails}

InitPixiv ==
    /\ preview_images = <<>>
    /\ preview_data = NoLegacy
    /\ LAST_TW_API_RESP = [k \in {} |-> NoApiResponse]
    /\ last = NoResponse
    /\ workers = NoWorkers
    /\ \E u \in PixivInputs : call = [fn |-> "input", url |-> u, out |-> <<>>]

\* make_pixiv_original_candidate(url)
Normalize ==
    /\ call.fn = "input"
    /\ call' = [fn |-> "make_pixiv_original_candidate", url |-> call.url,
                out |-> <<make_pixiv_original_candidate(call.url)>>]
    /\ UNCHANGED <<preview_images, preview_data, LAST_TW_API_RESP, last, workers>>

\* the result is normalised once more
NormalizeAgain ==
    /\ call.fn = "make_pixiv_original_candidate"
    /\ Len(call.out) = 1
    /\ call' = [call EXCEPT !.out = Append(@, make_pixiv_original_candidate(@[1]))]
    /\ UNCHANGED <<preview_images, preview_data, LAST_TW_API_RESP, last, workers>>

\* the candidate loop of fetch_images_with_playwright for one discovered URL
DerivePages ==
    /\ call.fn = "input"
    /\ call' = [fn |-> "CandidateUrls", url |-> call.url,
                out |-> CandidateUrls([seen_urls |-> {}, attempted |-> <<>>],
                                      call.url).attempted]
    /\ UNCHANGED <<preview_images, preview_data, LAST_TW_API_RESP, last, workers>>

\* the same URL is discovered a second time
DerivePagesAgain ==
    /\ call.fn = "CandidateUrls"
    /\ call' = [fn |-> "CandidateUrlsAgain", url |-> call.url,
                out |-> CandidateUrls([seen_urls |-> Range(call.out),
                                       attempted |-> <<>>], call.url).attempted]
    /\ UNCHANGED <<preview_images, preview_data, LAST_TW_API_RESP, last, workers>>

NextPixiv ==
    \/ Normalize
    \/ NormalizeAgain
    \/ DerivePages
    \/ DerivePagesAgain

PixivSpec == InitPixiv /\ [][NextPixiv]_vars

\* ------------------------------------ the Image Fetcher on its own
\* what the server of a URL can answer, and the floors a caller passes
FetchStatuses == {0, 200, 201, 206, 404, 500}
FetchMimes ==
    {"", "image/png", "image/jpeg", "image/PNG", "IMAGE/PNG", "image/svg+xml",
     "image/SVG+XML", "image/svg+xml ", "imagefoo", "text/html",
     "application/octet-stream"}
FetchParams == {"", "charset=utf-8"}
FetchLens == {0, 1, SmallLen, BigLen, BigLen + 1}
FetchFloors == {-1, 0, 1, MinBytes}
\* the body of a response: b'' is the empty bytes
Payload(n) == IF n = 0 THEN NoBytes ELSE Bytes("payload", n)
FetchResponses ==
    {HttpResponse(st, mime, param, Payload(n)) :
        st \in FetchStatuses \ {0}, mime \in FetchMimes, param \in FetchParams,
        n \in FetchLens}
    \cup {TransportError}

InitFetch ==
    /\ preview_images = <<>>
    /\ preview_data = NoLegacy
    /\ LAST_TW_API_RESP = [k \in {} |-> NoApiResponse]
    /\ last = NoResponse
    /\ workers = NoWorkers
    /\ \E r \in FetchResponses, min_size \in FetchFloors :
          call = [fn |-> "input", response |-> r, min_size |-> min_size,
                  out |-> NotFetched]

\* _fetch_image_via_requests(url, min_size) against a server answering `response`
FetchViaRequests ==
    /\ call.fn = "input"
    /\ call' = [call EXCEPT !.fn = "_fetch_image_via_requests",
                            !.out = FetchImage(call.response, call.min_size)]
    /\ UNCHANGED <<preview_images, preview_data, LAST_TW_API_RESP, last, workers>>

NextFetch == FetchViaRequests

FetchSpec == InitFetch /\ [][NextFetch]_vars

\* --------------------------------------- Document-Scrape on its own
\* longest hint list of a page
MaxHints == 3

\* the hints a page's markup can give and what the hinted URLs answer
ScrapeHints == {UrlA, UrlB, RelA, "", BadHint}
ScrapeResponses(url) ==
    IF url = UrlA THEN ImageResponses(UrlA)
    ELSE ImageResponses(UrlB) \cup {TransportError}

InitScrape ==
    /\ preview_images = <<>>
    /\ preview_data = NoLegacy
    /\ LAST_TW_API_RESP = [k \in {} |-> NoApiResponse]
    /\ last = NoResponse
    /\ workers = NoWorkers
    /\ \E hints \in SeqsUpTo(ScrapeHints, MaxHints) :
       \E a \in ScrapeResponses(UrlA), b \in ScrapeResponses(UrlB) :
          call = [fn |-> "input", target_url |-> OtherUrl, hints |-> hints,
                  net |-> [u \in {UrlA, UrlB} |-> IF u = UrlA THEN a ELSE b],
                  out |-> [seen |-> {}, candidates |-> <<>>, used_method |-> None,
                           calls |-> {"direct", "document"}, hint_fetches |-> <<>>,
                           helper_fetches |-> <<>>, candidate_sources |-> NoSources]]

\* the hint loop of fetch_and_save_preview, lines 232-251
DocumentScrape ==
    /\ call.fn = "input"
    /\ call' = [call EXCEPT !.fn = "HintLoop",
                            !.out = HintLoop(@, call.target_url, call.hints,
                                             call.net, 1)]
    /\ UNCHANGED <<preview_images, preview_data, LAST_TW_API_RESP, last, workers>>

NextScrape == DocumentScrape

ScrapeSpec == InitScrape /\ [][NextScrape]_vars

\* ------------------------------------ save-mode requests side by side
\* Two fetch_and_save_preview requests for the item, each past line 475 with
\* its candidates in hand.  The database runs in autocommit mode (settings.py
\* sets no ATOMIC_REQUESTS and the view opens no transaction), so the delete of
\* line 508 and every create of line 512 is a statement of its own.
WorkerCandidates(w) ==
    IF w = 1
    THEN {<<Candidate(UrlA, Bytes("1a", BigLen), "image/jpeg")>>,
          <<Candidate(UrlA, Bytes("1a", BigLen), "image/jpeg"),
            Candidate(UrlB, Bytes("1b", BigLen), "image/png")>>}
    ELSE {<<Candidate(UrlB, Bytes("2b", BigLen), "image/jpeg")>>,
          <<Candidate(UrlB, Bytes("2b", BigLen), "image/jpeg"),
            Candidate(UrlA, Bytes("2a", SmallLen), "image/png")>>}

\* a request: pc is "resolved", "creating" (idx = the next position of the
\* loop) or "done"
Worker(pc, candidates, idx, saved) ==
    [pc |-> pc, candidates |-> candidates, idx |-> idx, saved |-> saved]

InitSaves ==
    /\ preview_images \in
           {<<>>, <<Row(1, 0, Bytes("prior", BigLen), "image/gif")>>}
    /\ preview_data = NoLegacy
    /\ LAST_TW_API_RESP = [k \in {} |-> NoApiResponse]
    /\ last = NoResponse
    /\ call = NoCall
    /\ \E c1 \in WorkerCandidates(1), c2 \in WorkerCandidates(2) :
          workers = <<Worker("resolved", c1, 1, <<>>), Worker("resolved", c2, 1, <<>>)>>

\* line 508: PreviewImage.objects.filter(item=item).delete()
SaveDelete(w) ==
    /\ workers[w].pc = "resolved"
    /\ preview_images' = DeleteAll(preview_images)
    /\ workers' = [workers EXCEPT ![w].pc = "creating"]
    /\ UNCHANGED <<preview_data, LAST_TW_API_RESP, last, call>>

\* lines 510-517: one round of the loop, PreviewImage.objects.create(order=idx,
\* ...); a create that raises is caught and the candidate is passed over
SaveCreate(w) ==
    /\ workers[w].pc = "creating"
    /\ workers[w].idx <= Len(workers[w].candidates)
    /\ LET c == workers[w].candidates[workers[w].idx]
       IN \E raises \in BOOLEAN :
          /\ preview_images' =
                 Create(preview_images,
                        PreviewImage(workers[w].idx - 1, c.data, c.content_type),
                        NextPk(preview_images, {}), raises)
          /\ workers' = [workers EXCEPT
                            ![w].idx = @ + 1,
                            ![w].saved =
                                IF raises THEN @
                                ELSE Append(@, ImageEntry(workers[w].idx - 1, c))]
    /\ UNCHANGED <<preview_data, LAST_TW_API_RESP, last, call>>

\* lines 519-522: the loop is over, the request answers 'saved', or 500 when
\* its `saved` list is empty
SaveRespond(w) ==
    /\ workers[w].pc = "creating"
    /\ workers[w].idx > Len(workers[w].candidates)
    /\ workers' = [workers EXCEPT ![w].pc = "done"]
    /\ UNCHANGED <<preview_images, preview_data, LAST_TW_API_RESP, last, call>>

NextSaves ==
    \/ \E w \in 1..2 : SaveDelete(w)
    \/ \E w \in 1..2 : SaveCreate(w)
    \/ \E w \in 1..2 : SaveRespond(w)

SavesSpec == InitSaves /\ [][NextSaves]_vars

\* ------------------------------------- the browser sessions, step by step
\* fetch_rendered_media (headless_fetch.py) and fetch_images_with_playwright
\* (playwright_helper.py).  Both run inside `with sync_playwright() as p:`.
\* `browser` records what the statements of the two functions did to the
\* browser: "open" after launch(), "closed" after a browser.close() that
\* returned.  `playwright` records the with block: "running" inside it,
\* "stopped" once it is left.
HAVE_RENDERER == TRUE

\* a call of one of the two functions, before its first statement
BrowserCall(fn, have_playwright, credentials, browser_name) ==
    [fn |-> fn, HAVE_PLAYWRIGHT |-> have_playwright, credentials |-> credentials,
     browser_name |-> browser_name, pc |-> "start", playwright |-> "none",
     browser |-> "none", outcome |-> "running", raised_at |-> "",
     navigated |-> FALSE, captured |-> FALSE, imgs |-> "unread", results |-> 0,
     fallback |-> FALSE]

\* an exception raised inside the with block: the block is left next
Unwind(c, at) == [c EXCEPT !.pc = "unwind", !.raised_at = at]

\* mutant: stopping the driver leaves a launched browser running
StopPlaywrightOnly(playwright, browser) == browser

\* The browser session once the scoped acquisition `with sync_playwright()`
\* is over.  The teardown is the Playwright library's; no statement of the two
\* functions performs it and the library is not part of the sources, so this
\* is the specification's "scoped-resource acquisition with guaranteed
\* teardown": a stopped driver has ended a browser that was still open.
StopPlaywright(playwright, browser) == IF playwright = "stopped" /\ browser = "open" THEN "closed" ELSE browser

InitBrowser ==
    /\ preview_images = <<>>
    /\ preview_data = NoLegacy
    /\ LAST_TW_API_RESP = [k \in {} |-> NoApiResponse]
    /\ last = NoResponse
    /\ workers = NoWorkers
    /\ call \in {BrowserCall("fetch_rendered_media", have, TRUE, name) :
                    have \in BOOLEAN, name \in {"chromium", "firefox", "netscape"}}
               \cup {BrowserCall("fetch_images_with_playwright", have, cred, "chromium") :
                        have \in BOOLEAN, cred \in BOOLEAN}

\* the statements before the launch: the import, the credentials, the with
\* block's entry and the choice of the browser type
EnterPlaywright ==
    /\ call.pc = "start"
    /\ call' =
         IF ~call.HAVE_PLAYWRIGHT
         THEN [call EXCEPT !.pc = "exit", !.outcome = "raised", !.raised_at = "import"]
         ELSE IF call.fn = "fetch_images_with_playwright" /\ ~call.credentials
              THEN [call EXCEPT !.pc = "exit", !.outcome = "raised",
                                !.raised_at = "credentials"]
              ELSE IF call.fn = "fetch_rendered_media" /\ call.browser_name = "netscape"
                   THEN Unwind([call EXCEPT !.playwright = "running"], "browser_name")
                   ELSE [call EXCEPT !.playwright = "running", !.pc = "launch"]
    /\ UNCHANGED <<preview_images, preview_data, LAST_TW_API_RESP, last, workers>>

\* browser = <type>.launch(...)
LaunchBrowser ==
    /\ call.pc = "launch"
    /\ \E ok \in BOOLEAN :
          call' = IF ok THEN [call EXCEPT !.browser = "open", !.pc = "page"]
                  ELSE Unwind(call, "launch")
    /\ UNCHANGED <<preview_images, preview_data, LAST_TW_API_RESP, last, workers>>

\* browser.new_context(...) and context.new_page(), outside any try
NewPage ==
    /\ call.pc = "page"
    /\ \E ok \in BOOLEAN :
          call' = IF ok
                  THEN [call EXCEPT !.pc = IF call.fn = "fetch_rendered_media"
                                           THEN "goto" ELSE "login"]
                  ELSE Unwind(call, "new_context")
    /\ UNCHANGED <<preview_images, preview_data, LAST_TW_API_RESP, last, workers>>

\* fetch_rendered_media: page.goto(url) inside a try; a failure is passed over
RenderedGoto ==
    /\ call.pc = "goto"
    /\ \E ok \in BOOLEAN : call' = [call EXCEPT !.navigated = ok, !.pc = "extract"]
    /\ UNCHANGED <<preview_images, preview_data, LAST_TW_API_RESP, last, workers>>

\* fetch_rendered_media: the scrolls, the evaluation and the clicks, each in a
\* try; `results` counts the URLs collected
RenderedExtract ==
    /\ call.pc = "extract"
    /\ \E n \in 0..2 : call' = [call EXCEPT !.results = n, !.pc = "close"]
    /\ UNCHANGED <<preview_images, preview_data, LAST_TW_API_RESP, last, workers>>

\* fetch_images_with_playwright: page.goto(login_url), outside any try, then
\* the form steps, each in a try
PixivLogin ==
    /\ call.pc = "login"
    /\ \E ok \in BOOLEAN :
          call' = IF ok THEN [call EXCEPT !.pc = "target"] ELSE Unwind(call, "login")
    /\ UNCHANGED <<preview_images, preview_data, LAST_TW_API_RESP, last, workers>>

\* page.goto(target_url), outside any try; captured = some image response of
\* a pixiv host was recorded with a body while the page loaded
PixivGoto ==
    /\ call.pc = "target"
    /\ \E ok \in BOOLEAN, captured \in BOOLEAN :
          call' = IF ok
                  THEN [call EXCEPT !.navigated = TRUE, !.captured = captured,
                                    !.pc = "interact"]
                  ELSE Unwind(call, "goto")
    /\ UNCHANGED <<preview_images, preview_data, LAST_TW_API_RESP, last, workers>>

\* `if not captured_map and pixiv_imgs:` -- pixiv_imgs is a local that is
\* assigned further down, so reading it raises UnboundLocalError; it is read
\* only when captured_map is empty
PixivInteract ==
    /\ call.pc = "interact"
    /\ call' = IF ~call.captured THEN Unwind(call, "pixiv_imgs")
               ELSE [call EXCEPT !.pc = "dom"]
    /\ UNCHANGED <<preview_images, preview_data, LAST_TW_API_RESP, last, workers>>

\* the image URLs of the rendered DOM: none, none of a pixiv host, or some
PixivReadDom ==
    /\ call.pc = "dom"
    /\ \E imgs \in {"none", "foreign", "pixiv"} :
          call' = [call EXCEPT !.imgs = imgs, !.pc = "candidates"]
    /\ UNCHANGED <<preview_images, preview_data, LAST_TW_API_RESP, last, workers>>

\* candidates = pixiv_imgs, or [imgs[0]] when there is none: IndexError on an
\* empty imgs
PixivCandidates ==
    /\ call.pc = "candidates"
    /\ call' = IF call.imgs = "none" THEN Unwind(call, "imgs[0]")
               ELSE [call EXCEPT !.pc = "fetch"]
    /\ UNCHANGED <<preview_images, preview_data, LAST_TW_API_RESP, last, workers>>

\* the fetch loop over the candidates; every fetch is in a try
PixivFetch ==
    /\ call.pc = "fetch"
    /\ \E n \in 0..1 : call' = [call EXCEPT !.results = n, !.pc = "fallback"]
    /\ UNCHANGED <<preview_images, preview_data, LAST_TW_API_RESP, last, workers>>

\* `if not results and HAVE_RENDERER and fetch_rendered_media:` the generic
\* rendered extraction, inside a try
PixivFallback ==
    /\ call.pc = "fallback"
    /\ \E n \in 0..1 :
          call' = IF call.results = 0 /\ HAVE_RENDERER
                  THEN [call EXCEPT !.fallback = TRUE, !.results = n, !.pc = "close"]
                  ELSE [call EXCEPT !.pc = "close"]
    /\ UNCHANGED <<preview_images, preview_data, LAST_TW_API_RESP, last, workers>>

\* try: browser.close() except Exception: pass
CloseBrowser ==
    /\ call.pc = "close"
    /\ \E ok \in BOOLEAN :
          call' = [call EXCEPT !.browser = IF ok THEN "closed" ELSE @, !.pc = "leave"]
    /\ UNCHANGED <<preview_images, preview_data, LAST_TW_API_RESP, last, workers>>

\* the with block is left, by its last statement or by an exception.  No
\* statement of either function touches the browser here: on the exception
\* paths browser.close() has not been called, and `browser` stays "open"
LeavePlaywright ==
    /\ call.pc \in {"leave", "unwind"}
    /\ call' = [call EXCEPT !.playwright = "stopped",
                            !.outcome = IF call.pc = "leave" THEN "returned"
                                        ELSE "raised",
                            !.pc = "exit"]
    /\ UNCHANGED <<preview_images, preview_data, LAST_TW_API_RESP, last, workers>>

NextBrowser ==
    \/ EnterPlaywright
    \/ LaunchBrowser
    \/ NewPage
    \/ RenderedGoto
    \/ RenderedExtract
    \/ PixivLogin
    \/ PixivGoto
    \/ PixivInteract
    \/ PixivReadDom
    \/ PixivCandidates
    \/ PixivFetch
    \/ PixivFallback
    \/ CloseBrowser
    \/ LeavePlaywright

BrowserSpec == InitBrowser /\ [][NextBrowser]_vars

\* ------------------------- the helper's URLs merged into Document-Scrape
\* lines 232-277 of fetch_and_save_preview for a twitter/x target
MergeHints == {UrlA, UrlB, ""}
\* an image URL that only the nitter front-end names
UrlC == "https://cdn.example/c"
MergeTwitterCases ==
    TwitterCases
    \cup {TwitterCase(TRUE, "nitter", ApiPhotoA, BackendResult(TRUE, FALSE, <<>>),
                      BackendResult(FALSE, FALSE, <<UrlB>>)),
          TwitterCase(TRUE, "api", ApiPhotoA, BackendResult(FALSE, FALSE, <<UrlA, UrlB>>),
                      BackendResult(FALSE, FALSE, <<UrlB, UrlC>>))}

InitMerge ==
    /\ preview_images = <<>>
    /\ preview_data = NoLegacy
    /\ LAST_TW_API_RESP = [k \in {} |-> NoApiResponse]
    /\ last = NoResponse
    /\ workers = NoWorkers
    /\ \E hints \in SeqsUpTo(MergeHints, 2), t \in MergeTwitterCases :
       \E a \in ScrapeResponses(UrlA), b \in ScrapeResponses(UrlB) :
          call = [fn |-> "input", target_url |-> TwitterUrl, hints |-> hints,
                  net |-> [u \in {UrlA, UrlB, UrlC} |->
                              IF u = UrlA THEN a
                              ELSE IF u = UrlB THEN b
                              ELSE HttpResponse(200, "image/png", "", Bytes(UrlC, BigLen))],
                  twitter |-> t, tw_urls |-> <<>>,
                  scraped |-> [seen |-> {}, candidates |-> <<>>, used_method |-> None,
                               calls |-> {"direct", "document"}, hint_fetches |-> <<>>,
                               helper_fetches |-> <<>>, candidate_sources |-> NoSources],
                  out |-> [seen |-> {}, candidates |-> <<>>, used_method |-> None,
                           calls |-> {"direct", "document"}, hint_fetches |-> <<>>,
                           helper_fetches |-> <<>>, candidate_sources |-> NoSources]]

\* lines 232-251: the hint loop
MergeScrape ==
    /\ call.fn = "input"
    /\ LET scraped == HintLoop(call.out, call.target_url, call.hints, call.net, 1)
       IN call' = [call EXCEPT !.fn = "HintLoop", !.scraped = scraped, !.out = scraped]
    /\ UNCHANGED <<preview_images, preview_data, LAST_TW_API_RESP, last, workers>>

\* lines 253-277: the helper is called and its URLs are merged
MergeHelper ==
    /\ call.fn = "HintLoop"
    /\ IsTwitter(call.target_url)
    /\ LET t == call.twitter
           tw_urls == FetchTwitterMediaUrlsWithSources(t.TW_FETCH_METHOD, t.TW_BEARER,
                                                       t.tw)
       IN /\ call' = [call EXCEPT
                         !.fn = "HelperLoop",
                         !.tw_urls = tw_urls,
                         !.out = HelperLoop([call.scraped EXCEPT
                                                !.calls = @ \cup {"helper"}],
                                            tw_urls, call.net, 1)]
          /\ LAST_TW_API_RESP' = ApiCacheAfter(LAST_TW_API_RESP, t.TW_BEARER, t.tw.api,
                                               TweetId(call.target_url))
    /\ UNCHANGED <<preview_images, preview_data, last, workers>>

NextMerge ==
    \/ MergeScrape
    \/ MergeHelper

MergeSpec == InitMerge /\ [][NextMerge]_vars

\* ------------------------- fetch_twitter_media_urls_with_sources on its own
TwMethods == {"api", "API", "scrape", "nitter", "syndication"}
TwApiAnswers ==
    {ApiPhotoA, ApiAnswer(200, <<Media("photo", UrlB, UrlA)>>), ApiAnswer(429, <<>>),
     ApiAnswer(0, <<>>)}
TwBackendResults ==
    {BackendResult(TRUE, FALSE, <<>>), NoneBackend, NoBackend,
     BackendResult(FALSE, FALSE, <<UrlA>>),
     BackendResult(FALSE, FALSE, <<UrlB, "", UrlA, UrlB>>)}

InitTwitter ==
    /\ preview_images = <<>>
    /\ preview_data = NoLegacy
    /\ LAST_TW_API_RESP = [k \in {} |-> NoApiResponse]
    /\ last = NoResponse
    /\ workers = NoWorkers
    /\ \E method \in TwMethods, bearer \in BOOLEAN, api \in TwApiAnswers :
       \E scrape \in TwBackendResults, nitter \in TwBackendResults :
          call = [fn |-> "input", tweet_url |-> TwitterUrl,
                  twitter |-> TwitterCase(bearer, method, api, scrape, nitter),
                  out |-> <<>>]

\* one call of fetch_twitter_media_urls_with_sources(tweet_url)
FetchTwitterMedia ==
    /\ call.fn = "input"
    /\ LET t == call.twitter
       IN /\ call' = [call EXCEPT
                         !.fn = "fetch_twitter_media_urls_with_sources",
                         !.out = FetchTwitterMediaUrlsWithSources(
                                     t.TW_FETCH_METHOD, t.TW_BEARER, t.tw)]
          /\ LAST_TW_API_RESP' = ApiCacheAfter(LAST_TW_API_RESP, t.TW_BEARER, t.tw.api,
                                               TweetId(call.tweet_url))
    /\ UNCHANGED <<preview_images, preview_data, last, workers>>

NextTwitter == FetchTwitterMedia

TwitterSpec == InitTwitter /\ [][NextTwitter]_vars

\* --------------------------------------- the API calls and LAST_TW_API_RESP
\* what the API answers for a tweet: 200 with media, 200 without, 404, 429,
\* 500, or no answer at all
CacheAnswers ==
    {ApiPhotoA, ApiAnswer(200, <<Media("photo", UrlB, "")>>), ApiAnswer(200, <<>>),
     ApiAnswer(404, <<>>), ApiAnswer(429, <<>>), ApiAnswer(500, <<>>),
     ApiAnswer(0, <<>>)}

InitCache ==
    /\ preview_images = <<>>
    /\ preview_data = NoLegacy
    /\ LAST_TW_API_RESP = [k \in {} |-> NoApiResponse]
    /\ last = NoResponse
    /\ workers = NoWorkers
    /\ call = NoCall

\* one call of _fetch_via_api(tweet_url)
ApiCall ==
    /\ \E url \in {TwitterUrl, TwitterUrl4}, bearer \in BOOLEAN, answer \in CacheAnswers :
          /\ call' = [fn |-> "_fetch_via_api", tweet_url |-> url, TW_BEARER |-> bearer,
                      answer |-> answer, out |-> FetchViaApi(bearer, answer)]
          /\ LAST_TW_API_RESP' = ApiCacheAfter(LAST_TW_API_RESP, bearer, answer,
                                               TweetId(url))
    /\ UNCHANGED <<preview_images, preview_data, last, workers>>

NextCache == ApiCall

CacheSpec == InitCache /\ [][NextCache]_vars

\* ------------------------------------------------------- properties
Fetch == last.op = "fetch_and_save_preview"
Orders(rows) == {rows[i].order : i \in 1..Len(rows)}
Urls(candidates) == {candidates[i].url : i \in 1..Len(candidates)}
\* the rows as the instances that were created: without their keys
Unsaved(rows) == [i \in 1..Len(rows) |-> [rows[i] EXCEPT !.pk = 0]]
\* at(item, i): the (bytes, media type) the index endpoint serves for position i
At(rows, i) ==
    LET r == PreviewIndexResponse(rows, [int |-> TRUE, val |-> i], "GET")
    IN <<r.status, r.data, r.content_type>>

\* C1: a request forcing the API for a twitter/x target while TW_BEARER is not
\* configured is answered with the 422 "credential missing" response, and no
\* network call was issued before that response.
C1_NoBearerFailsFast ==
    (Fetch /\ last.force_method = "api" /\ IsTwitter(last.url) /\ ~last.TW_BEARER)
        => /\ last.status = HTTP_422_UNPROCESSABLE_ENTITY
           /\ last.detail = "TW_BEARER not configured"
           /\ last.calls = {}

\* C2: in every reachable state the order values of the item's PreviewImage
\* rows are pairwise distinct and are exactly 0..n-1.
C2_OrdersContiguous ==
    /\ Cardinality(Orders(preview_images)) = Len(preview_images)
    /\ Orders(preview_images) = 0..(Len(preview_images) - 1)

\* the state in which a fully successful save that ran alone has answered
C3_SaveThenAt ==
    (Fetch /\ last.detail = "saved" /\ last.count = Len(last.candidates) /\ last.alone)
        => /\ Len(preview_images) = Len(last.candidates)
           /\ \A i \in 1..Len(last.candidates) :
                 At(preview_images, i - 1) =
                     <<HTTP_200_OK, last.candidates[i].data,
                       last.candidates[i].content_type>>
\* the state in which a successful delete_at(k) that ran alone has answered;
\* last.before is the order-sorted list the request read first
C3_DeleteShifts ==
    (last.op = "preview_index" /\ last.method = "DELETE"
     /\ last.status = HTTP_200_OK /\ last.alone)
        => LET n == Len(last.before)
               k == last.index
           IN /\ Len(preview_images) = n - 1
              /\ \A i \in 0..(k - 1) : At(preview_images, i) = At(last.before, i)
              /\ \A i \in k..(n - 2) : At(preview_images, i) = At(last.before, i + 1)
              /\ Orders(preview_images) = 0..(n - 2)
\* C3: after a fully successful save of b0..b(n-1) the item holds exactly those
\* n images and at(i) serves (b_i, type_i); a successful delete_at(k) removes
\* exactly one image, at(i) is unchanged below k and serves the former i+1 from
\* k on, and the remaining orders are 0..n-2.  Both for a request during which
\* no other request wrote to the item.
C3_SaveAtDelete == C3_SaveThenAt /\ C3_DeleteShifts
C3_Witness ==
    /\ last.op = "preview_index" /\ last.method = "DELETE"
    /\ last.status = HTTP_200_OK /\ last.index = 0 /\ last.alone
    /\ Len(last.before) = 2
    /\ last.before[1].data # last.before[2].data
    /\ Len(preview_images) = 1
    /\ preview_images[1].pk = last.before[2].pk
    /\ preview_images[1].order = 0

\* C4: the preview endpoint without an index serves the stored image of the
\* largest byte length, the lowest order among equals; it serves the legacy
\* blob only when the item has no PreviewImage row, and NotFound when there is
\* neither.
\* For an answer given while the legacy fields are as get_object() loaded them.
C4_BestOrLegacy ==
    (last.op = "preview" /\ ~last.index_given /\ last.legacy = preview_data)
        => /\ preview_images # <<>> =>
                /\ last.detail = "best"
                /\ \E i \in 1..Len(preview_images) :
                      /\ last.data = preview_images[i].data
                      /\ last.content_type = preview_images[i].content_type
                      /\ \A j \in 1..Len(preview_images) :
                            /\ preview_images[j].data.len <= preview_images[i].data.len
                            /\ preview_images[j].data.len = preview_images[i].data.len
                                   => preview_images[i].order <= preview_images[j].order
           /\ (preview_images = <<>> /\ Truthy(preview_data.data)) =>
                /\ last.detail = "legacy"
                /\ last.data = preview_data.data
           /\ (preview_images = <<>> /\ ~Truthy(preview_data.data)) =>
                last.status = HTTP_404_NOT_FOUND
           /\ last.detail = "legacy" => preview_images = <<>>
C4_Witness ==
    /\ last.op = "preview" /\ ~last.index_given /\ last.detail = "best"
    /\ Len(preview_images) >= 2
    /\ preview_images[1].data.len < last.data.len

\* C5: a request forcing Playwright while HEADLESS_ALLOWED is unset always ends
\* in the 403 response, whatever Direct and Document-Scrape returned; nothing
\* is returned or persisted by it.
C5_HeadlessGateAlways403 ==
    (Fetch /\ last.url # NoUrl /\ last.force_method = "playwright"
     /\ ~last.HEADLESS_ALLOWED)
        => /\ last.status = HTTP_403_FORBIDDEN
           /\ last.images = <<>>

\* C6: with force_method = 'playwright' every candidate returned in preview
\* mode or persisted in save mode has at least 10240 bytes.
C6_PlaywrightFloor ==
    (Fetch /\ last.force_method = "playwright")
        => /\ \A i \in 1..Len(last.images) : last.images[i].data.len >= MinBytes
           /\ (~last.preview_only
               /\ last.status \in {HTTP_200_OK, HTTP_500_INTERNAL_SERVER_ERROR})
                  => \A i \in 1..Len(preview_images) :
                        preview_images[i].data.len >= MinBytes
C6_Witness ==
    /\ Fetch /\ last.force_method = "playwright" /\ last.status = HTTP_200_OK
    /\ last.method = "html" /\ ~last.preview_only
    /\ Len(last.images) = 1
    /\ "rendered_browser" \in last.calls

\* C7: the final candidate sequence of a request never holds the same resolved
\* URL twice.
C7_NoDuplicateUrl ==
    Fetch => Cardinality(Urls(last.candidates)) = Len(last.candidates)

\* C8: a preview_only request leaves the Preview Store unchanged on every path:
\* no PreviewImage is deleted, created or renumbered and the legacy blob is
\* untouched.  call.rows and call.legacy are the store the request met.
C8_PreviewOnlyFrame ==
    (call.fn = "request" /\ call.inp.req.preview_only)
        => /\ preview_images = call.rows
           /\ preview_data = call.legacy
C8_Witness ==
    /\ Fetch /\ last.preview_only /\ last.status = HTTP_200_OK
    /\ Len(last.images) = 2
    /\ Len(preview_images) = 1

\* C9: whenever a save-mode request ends with a 4xx or 5xx response, the
\* previously stored PreviewImage set is intact (same blobs, types and orders).
C9_FailedSaveKeepsPrior ==
    (Fetch /\ ~last.preview_only /\ last.status >= 400)
        => preview_images = call.rows

\* C10: in save mode a create that fails is skipped without aborting the
\* rest; the response is 'saved' iff at least one row was created, its count
\* is the number of rows now stored, and it is a server error when no row was
\* created.
C10_PartialSave ==
    (Fetch /\ ~last.preview_only
     /\ (last.detail = "saved" \/ last.status = HTTP_500_INTERNAL_SERVER_ERROR))
        => /\ last.detail = "saved" <=> Len(preview_images) >= 1
           /\ last.detail = "saved" =>
                 last.status = HTTP_200_OK /\ last.count = Len(preview_images)
           /\ Len(preview_images) = 0 => last.status = HTTP_500_INTERNAL_SERVER_ERROR
           /\ \A i \in 1..Len(last.candidates) :
                 i \notin last.failed =>
                    \E j \in 1..Len(preview_images) :
                       Unsaved(preview_images)[j] =
                           PreviewImage(i - 1, last.candidates[i].data,
                                        last.candidates[i].content_type)
C10_Witness ==
    /\ Fetch /\ last.detail = "saved"
    /\ last.failed = {1}
    /\ Len(last.candidates) = 3
    /\ last.count = 2

\* C11: whenever a resolution request finishes with zero candidates (the
\* capability and missing-link refusals apart), at whatever stage the candidate
\* set became empty, the response is the 422 "nothing found" one, never a 5xx,
\* and the stored previews are unchanged.
C11_ZeroCandidatesNothingFound ==
    (Fetch /\ last.url # NoUrl /\ last.status # HTTP_403_FORBIDDEN
     /\ last.candidates = <<>>)
        => /\ last.status = HTTP_422_UNPROCESSABLE_ENTITY
           /\ preview_images = call.rows

\* C12: with force_method = 'api' on a twitter/x target and TW_BEARER set, only
\* the API decides the result: candidates of Direct or Document-Scrape are never
\* returned or persisted, and a request without usable API media and without a
\* recorded 429 ends in the 422 "API returned no media" response.
C12_ApiOnly ==
    (Fetch /\ last.force_method = "api" /\ IsTwitter(last.url) /\ last.TW_BEARER)
        => /\ last.method \notin {"direct", "html"}
           /\ (last.method # "api"
               /\ GetLastApiResponse(LAST_TW_API_RESP, last.url).status # 429)
                  => /\ last.status = HTTP_422_UNPROCESSABLE_ENTITY
                     /\ last.detail = "API fetch returned no media"

\* C13: when the API call of an api-mode request is answered with 429, the
\* stored last response of the post records status 429, and a request that
\* ends with candidates ends with method 'api_rate_limited_fallback'.
C13_RateLimitRecorded ==
    (Fetch /\ last.force_method = "api" /\ IsTwitter(last.url) /\ last.TW_BEARER
     /\ last.api_status = 429)
        => /\ GetLastApiResponse(LAST_TW_API_RESP, last.url).status = 429
           /\ last.candidates # <<>> => last.method = "api_rate_limited_fallback"

\* a pixiv/pximg URL whose path is the originals' and carries no master token
IsOriginalForm(u) ==
    /\ u.valid /\ u.scheme # "" /\ _is_pixiv_host(u.netloc)
    /\ StartsWith(u.path, <<"/", "img-original", "/", "img", "/">>)
    /\ \A k \in 1..Len(u.path) : ~IsMaster(u.path[k]) /\ u.path[k] # "img-master"
\* C14: make_pixiv_original_candidate is idempotent for every URL, of the
\* pixiv host family or not, and returns a URL that is already in
\* original-resolution form unchanged.
C14_Idempotent ==
    /\ (call.fn = "make_pixiv_original_candidate" /\ Len(call.out) = 2)
          => call.out[2] = call.out[1]
    /\ (call.fn = "make_pixiv_original_candidate" /\ IsOriginalForm(call.url))
          => call.out[1] = call.url

\* C15: for a URL whose netloc contains neither 'pixiv' nor 'pximg' the
\* function returns its input unchanged, query and fragment included, and for
\* a string that does not parse it returns the input instead of raising.
C15_ForeignHostUnchanged ==
    (call.fn = "make_pixiv_original_candidate"
     /\ (~call.url.valid \/ call.url.netloc \in {"example.org", "I.PXIMG.NET"}))
        => call.out[1] = call.url
C15_Witness ==
    /\ call.fn = "make_pixiv_original_candidate"
    /\ call.url.netloc = "example.org"
    /\ call.url.query = "lang=en" /\ call.url.fragment = "top"
    /\ Contains(call.url.path, <<"/", "img-master", "/">>)
    /\ Contains(call.url.path, <<"_p3", "_master1200", ".">>)
    /\ call.out = <<call.url>>

\* the URL with its page tokens replaced by _p<i>
WithPage(u, i) ==
    [u EXCEPT !.path = [k \in 1..Len(u.path) |->
                           IF IsPage(u.path[k]) THEN PageToken(i) ELSE u.path[k]]]
\* C16: for a discovered URL whose path holds a page token _p<N> the helper
\* derives exactly the 8 siblings _p0.._p7, each normalised on its own, in
\* increasing page order.
C16_EightSiblings ==
    (call.fn = "CandidateUrls" /\ call.url.valid /\ HasPage(call.url.path))
        => /\ Len(call.out) = MAX_PAGES
           /\ \A i \in 1..Len(call.out) :
                 call.out[i] = make_pixiv_original_candidate(WithPage(call.url, i - 1))

\* C17: with min_size = N the fetcher returns (None, None) for every payload
\* shorter than N, valid status and type or not, and returns the payload and
\* its type when status and type are valid and the length is N or more.
C17_MinSize ==
    (call.fn = "_fetch_image_via_requests" /\ call.min_size >= 0)
        => /\ call.response.body.len < call.min_size => call.out = NotFetched
           /\ (/\ call.response.status = HTTP_200_OK
               /\ call.response.mime \in {"image/png", "image/jpeg"}
               /\ call.response.body.len >= call.min_size)
                  => call.out = [body |-> call.response.body,
                                 ctype |-> call.response.mime]
C17_Witness ==
    /\ call.fn = "_fetch_image_via_requests"
    /\ call.min_size = MinBytes
    /\ call.response.body.len = MinBytes
    /\ call.response.param = "charset=utf-8"
    /\ call.out.body = call.response.body
    /\ call.out.ctype = "image/jpeg"

\* the media type a content-type value names: case and surrounding blanks
\* do not count
MediaType(m) == IF m = "image/svg+xml " THEN "image/svg+xml" ELSE Lower(m)
\* C18: the fetcher returns (bytes, media type) only when the status is a
\* success, the media type begins with 'image/' and is not image/svg+xml; in
\* every other case, a transport error included, it returns (None, None).
C18_AcceptsOnlyImages ==
    call.fn = "_fetch_image_via_requests"
        => /\ call.out # NotFetched =>
                 /\ call.response.status \in 200..299
                 /\ MediaType(call.response.mime) \in
                        {"image/png", "image/jpeg", "image/svg+xml"}
                 /\ MediaType(call.response.mime) # "image/svg+xml"
           /\ call.response = TransportError => call.out = NotFetched

\* the absolute URL of hint i, and whether hint i resolves at all
HintUrl(i) == UrlJoin(call.target_url, call.hints[i])
HintResolves(i) == call.hints[i] # "" /\ call.hints[i] # BadHint
\* the positions where a resolved URL is met for the first time, and those of
\* them whose URL answers 200 with a non-SVG image type and a body
FirstHints ==
    {i \in 1..Len(call.hints) :
        HintResolves(i)
        /\ \A j \in 1..(i - 1) : HintResolves(j) => HintUrl(j) # HintUrl(i)}
GoodHints ==
    {i \in FirstHints :
        /\ call.net[HintUrl(i)].status = 200
        /\ call.net[HintUrl(i)].mime \in {"image/png", "image/jpeg"}
        /\ call.net[HintUrl(i)].body.len > 0}
\* C19: Document-Scrape yields exactly one candidate per distinct absolute
\* hint URL whose fetch succeeds, in hint-discovery order; a hint whose fetch
\* fails or whose resolution raises is skipped, and no absolute URL is fetched
\* twice.
C19_OnePerDistinctHint ==
    call.fn = "HintLoop"
        => /\ Len(call.out.candidates) = Cardinality(GoodHints)
           /\ \A k \in 1..Len(call.out.candidates) :
                 \E i \in GoodHints :
                    /\ Cardinality({j \in GoodHints : j < i}) = k - 1
                    /\ call.out.candidates[k] =
                           Candidate(HintUrl(i), call.net[HintUrl(i)].body,
                                     call.net[HintUrl(i)].mime)
           /\ Len(call.out.hint_fetches) = Cardinality(FirstHints)
           /\ Range(call.out.hint_fetches) = {HintUrl(i) : i \in FirstHints}
C19_Witness ==
    /\ call.fn = "HintLoop"
    /\ call.hints = <<RelA, UrlA, UrlB>>
    /\ Len(call.out.candidates) = 2
    /\ call.out.hint_fetches = <<UrlA, UrlB>>

\* the rows a request stores when it runs alone
RowsOf(candidates) ==
    [i \in 1..Len(candidates) |->
        PreviewImage(i - 1, candidates[i].data, candidates[i].content_type)]
\* C20: once two concurrent save-mode requests for the item have both
\* completed, the stored set is the complete candidate sequence of exactly one
\* of them, never a mixture, and no two rows share an order.  For requests
\* whose creates all succeeded.
C20_LastWriterWins ==
    (/\ Len(workers) = 2
     /\ \A w \in 1..2 : /\ workers[w].pc = "done"
                        /\ Len(workers[w].saved) = Len(workers[w].candidates))
        => /\ \E w \in 1..2 : Unsaved(preview_images) = RowsOf(workers[w].candidates)
           /\ Cardinality(Orders(preview_images)) = Len(preview_images)

\* C21: fetch_and_save_preview never lets an exception escape; a fault of a
\* collaborator (the store failing on the delete of the existing rows, a helper
\* raising) ends in a server-error response with a diagnostic message.
C21_NoExceptionEscapes ==
    Fetch => /\ ~last.raised
             /\ last.failed = DeleteFails =>
                    last.status = HTTP_500_INTERNAL_SERVER_ERROR

\* a step that answers an indexed read or delete at once: an integer index
\* outside 0..n-1, or an indexed read inside it
C22_IndexStep ==
    LET n == Len(preview_images)
        indexed == /\ last.op = "none"
                   /\ workers' = workers
                   /\ \/ last'.op = "preview_index"
                      \/ last'.op = "preview" /\ last'.index_given
        numeric == last'.detail # "invalid index"
    IN /\ (indexed /\ numeric /\ (last'.index < 0 \/ last'.index >= n))
             => /\ last'.status = HTTP_404_NOT_FOUND
                /\ preview_images' = preview_images
       /\ (indexed /\ numeric /\ last'.index \in 0..(n - 1) /\ last'.method # "DELETE")
             => \E j \in 1..n :
                   /\ last'.data = preview_images[j].data
                   /\ Cardinality({k \in 1..n : preview_images[k].order
                                                   < preview_images[j].order})
                          <= last'.index
                   /\ Cardinality({k \in 1..n : preview_images[k].order
                                                   <= preview_images[j].order})
                          > last'.index
\* C22: at(item, index) and delete_at(item, index) with index < 0 or index >= n
\* answer NotFound, a refused delete_at leaves the rows and their orders as
\* they were, and an index inside the range addresses the position in the
\* order-sorted sequence.
C22_OutOfRangeNotFound == [][C22_IndexStep]_vars
C22_Witness ==
    /\ last.op = "preview_index" /\ last.method = "DELETE"
    /\ last.status = HTTP_404_NOT_FOUND
    /\ last.index = -1
    /\ Len(preview_images) = 2
    /\ preview_images[1].order > 0

C25_PixivHelperDegrades ==
    (call.fn = "fetch_images_with_playwright" /\ call.navigated
     /\ call.pc = "exit")
        => /\ call.outcome = "returned"
           /\ call.results = 0 => call.fallback

\* C24: a failure inside the Rendered-Session strategy is local to it: when
\* fetch_rendered_media or the art-host helper raises, the request goes on with
\* the candidates gathered before and is not answered with the strategy's error.
C24_RenderedFailureIsLocal ==
    (last.op = "fetch_and_save_preview" /\ last.strategy_raised # {}
     /\ last.candidates # <<>>)
        => ~(last.status = HTTP_422_UNPROCESSABLE_ENTITY
             /\ last.detail = "Playwright fetch failed")

\* C30: fetch_and_save_preview launches a browser, through
\* fetch_images_with_playwright or fetch_rendered_media, only for a request
\* with force_method = 'playwright' in an environment with HEADLESS_ALLOWED set.
C30_BrowserOnlyWhenAllowed ==
    (last.op = "fetch_and_save_preview"
     /\ last.calls \cap {"pixiv_browser", "rendered_browser"} # {})
        => /\ last.force_method = "playwright"
           /\ last.HEADLESS_ALLOWED
C30_Witness ==
    /\ last.op = "fetch_and_save_preview"
    /\ {"pixiv_browser", "rendered_browser"} \subseteq last.calls
    /\ last.HEADLESS_ALLOWED
    /\ last.status = HTTP_200_OK

\* one step of the API cache: after a call that reached the API and got an
\* answer, the entry of its post id is that answer's status and body; no entry
\* disappears; the entries of the other post ids are as before
C26_CacheStep ==
    call'.fn = "_fetch_via_api" =>
        /\ (call'.TW_BEARER /\ call'.answer.status # 0) =>
               GetLastApiResponse(LAST_TW_API_RESP', call'.tweet_url)
                   = [json |-> call'.answer.media, status |-> call'.answer.status]
        /\ DOMAIN LAST_TW_API_RESP \subseteq DOMAIN LAST_TW_API_RESP'
        /\ \A k \in DOMAIN LAST_TW_API_RESP \ {TweetId(call'.tweet_url)} :
               LAST_TW_API_RESP'[k] = LAST_TW_API_RESP[k]

\* C26: get_last_api_response returns the status and body of the most recent
\* API call for the post id, whatever that call's outcome; cache entries are
\* only added or overwritten, never removed; a call for one post id never
\* changes the entry of another.
C26_LastApiResponseIsLatest == [][C26_CacheStep]_vars

\* the URLs the scraped hints resolve to
C27_Hinted ==
    {UrlJoin(call.target_url, call.hints[i]) :
        i \in {j \in DOMAIN call.hints :
                  TruthyStr(call.hints[j]) /\ ~UrlJoinRaises(call.hints[j])}}

\* C27: the merge of the helper's results into Document-Scrape never fetches
\* or adds a helper URL tagged 'api', never adds a URL already among the
\* scraped hints, and records every helper URL it adds with its non-API tag.
C27_HelperMergeSkipsApiAndSeen ==
    call.fn = "HelperLoop" =>
        LET before == Len(call.scraped.candidates)
            out == call.out
        IN /\ \A i \in DOMAIN out.helper_fetches :
                 /\ out.helper_fetches[i] \notin C27_Hinted
                 /\ \E t \in Range(call.tw_urls) :
                       t.url = out.helper_fetches[i] /\ t.src # "api"
           /\ \A i \in (before + 1)..Len(out.candidates) :
                 /\ out.candidates[i].url \notin C27_Hinted
                 /\ \E t \in Range(call.tw_urls) :
                       /\ t.url = out.candidates[i].url
                       /\ t.src # "api"
                       /\ out.candidates[i].url \in DOMAIN out.candidate_sources
                       /\ out.candidate_sources[out.candidates[i].url] = t.src
C27_Witness ==
    /\ call.fn = "HelperLoop"
    /\ \E t \in Range(call.tw_urls) : t.src = "api"
    /\ \E t \in Range(call.tw_urls) : t.src # "api" /\ t.url \in C27_Hinted
    /\ Len(call.out.candidates) > Len(call.scraped.candidates)

\* the URLs backend number i of the try order gave
C29_Gave(i) ==
    {u \in Range(BackendUrls(TryOrder(Lower(call.twitter.TW_FETCH_METHOD))[i],
                             call.twitter.TW_BEARER, call.twitter.tw)) : TruthyStr(u)}

\* C29: fetch_twitter_media_urls_with_sources asks every backend of the try
\* order whatever the earlier ones gave, returns each distinct URL exactly once,
\* tagged with the first backend of the order that gave it; a backend that
\* raised or gave None or nothing adds nothing and does not stop the others.
C29_EveryBackendFirstTag ==
    call.fn = "fetch_twitter_media_urls_with_sources" =>
        LET order == TryOrder(Lower(call.twitter.TW_FETCH_METHOD))
            out == call.out
        IN /\ \A i, j \in DOMAIN out : i # j => out[i].url # out[j].url
           /\ {out[k].url : k \in DOMAIN out} = UNION {C29_Gave(i) : i \in DOMAIN order}
           /\ \A k \in DOMAIN out :
                 \E i \in DOMAIN order :
                    /\ order[i] = out[k].src
                    /\ out[k].url \in C29_Gave(i)
                    /\ \A j \in 1..(i - 1) : out[k].url \notin C29_Gave(j)
C29_Witness ==
    /\ call.fn = "fetch_twitter_media_urls_with_sources"
    /\ call.twitter.tw.scrape.raises
    /\ \E i, j \in DOMAIN call.out : call.out[i].src # call.out[j].src
    /\ \E i, j \in 1..3 : i # j /\ C29_Gave(i) \cap C29_Gave(j) # {}

\* one step of the program: the legacy fields keep their values unless a
\* request of another kind (the fixture restore, the field update) is under
\* way, and a preview answered with an image while the item has rows serves
\* the data of a row
C28_LegacyStep ==
    /\ preview_data' # preview_data
           => \E w \in InFlight :
                 /\ workers[w].op \in {"restore_previews_upload", "update_fields"}
                 /\ workers' = <<Done>> \o RemoveAt(workers, w)
    /\ (last.op = "none" /\ last'.op = "preview" /\ last'.status = HTTP_200_OK
        /\ preview_images # <<>>)
           => /\ last'.detail # "legacy"
              /\ \E i \in DOMAIN preview_images : last'.data = preview_images[i].data

\* C28: no resolution or store operation writes the legacy preview_data /
\* preview_content_type, and the preview endpoint never serves the legacy blob
\* while the item has at least one PreviewImage row.
C28_LegacyNeverWrittenNorPreferred == [][C28_LegacyStep]_vars
C28_Witness ==
    /\ last.op = "preview" /\ ~last.index_given /\ last.status = HTTP_200_OK
    /\ preview_images # <<>>
    /\ Truthy(preview_data.data)
    /\ last.data # preview_data.data

====
